---- MODULE Spec2Model ----
(***************************************************************************)
(* Model of the room booking bot: command handler (commandHandler.ts),     *)
(* command parser (commandParser.ts) and booking store (database.ts).      *)
(*                                                                         *)
(* Clock texts ("HH:mm", "H:mm") are tuples of character codes: a digit is *)
(* its value 0..9 and ':' is 10, which keeps the byte order of the text    *)
(* ('0' < ... < '9' < ':'), the order SQLite's TEXT comparison uses.       *)
(* Dates are day numbers (the code keeps them as normalised YYYY-MM-DD     *)
(* texts, whose order and equality are those of the day numbers).          *)
(* An instant is day * 1440 + minute of the day.                           *)
(***************************************************************************)
EXTENDS Integers, Sequences, FiniteSets, TLC

VARIABLES bookings, now, last, reqs, running, hc, roomTable, data, parsed, http

vars == <<bookings, now, last, reqs, running, hc, roomTable, data, parsed, http>>

----------------------------------------------------------------------------
(* Bounds of the model *)

\* rows the bookings table may hold
MaxBookings == 2

\* number of times the clock advances
MaxTicks == 2

----------------------------------------------------------------------------
(* Texts: a JavaScript string is a tuple of characters, each character a
   one-character string; a Hangul syllable is written as its romanisation in
   brackets ("[o]" "[neul]" is the word for today) and has no letter case *)

UpperLetters ==
  << "A", "B", "C", "D", "E", "F", "G", "H", "I", "J", "K", "L", "M",
     "N", "O", "P", "Q", "R", "S", "T", "U", "V", "W", "X", "Y", "Z" >>

LowerLetters ==
  << "a", "b", "c", "d", "e", "f", "g", "h", "i", "j", "k", "l", "m",
     "n", "o", "p", "q", "r", "s", "t", "u", "v", "w", "x", "y", "z" >>

\* the digits of Number.prototype.toString(36)
Digits36 ==
  << "0", "1", "2", "3", "4", "5", "6", "7", "8", "9" >> \o LowerLetters

\* String.prototype.toLowerCase, character by character
toLowerCase(text) ==
  [ i \in 1..Len(text) |->
      IF \E k \in 1..Len(UpperLetters) : UpperLetters[k] = text[i]
      THEN LowerLetters[CHOOSE k \in 1..Len(UpperLetters) : UpperLetters[k] = text[i]]
      ELSE text[i] ]

\* String.prototype.toUpperCase, character by character
toUpperCase(text) ==
  [ i \in 1..Len(text) |->
      IF \E k \in 1..Len(LowerLetters) : LowerLetters[k] = text[i]
      THEN UpperLetters[CHOOSE k \in 1..Len(LowerLetters) : LowerLetters[k] = text[i]]
      ELSE text[i] ]

\* String.prototype.substring(0, n)
substring0(text, n) == SubSeq(text, 1, IF Len(text) < n THEN Len(text) ELSE n)

----------------------------------------------------------------------------
(* Configuration: config/index.ts bookingPolicy (defaults) *)

COLON == 10

bookingPolicy ==
  [ maxDurationMinutes |-> 240,
    minDurationMinutes |-> 15,
    bookingHoursStart  |-> <<0, 8, COLON, 0, 0>>,
    bookingHoursEnd    |-> <<2, 2, COLON, 0, 0>>,
    allowedDaysAhead   |-> 30 ]

\* rooms table after scripts/initDb.ts inserted its sample rooms
rooms ==
  { [id |-> 1, name |-> <<"A">>, email |-> "a@x"],
    [id |-> 2, name |-> <<"B">>, email |-> "b@x"] }

----------------------------------------------------------------------------
(* Texts and clock arithmetic *)

MinutesPerDay == 1440

\* a.localeCompare-free byte comparison of two texts: SQLite's BINARY
\* collation on TEXT columns (memcmp, then the shorter text first)
RECURSIVE TextLess(_, _)
TextLess(a, b) ==
  IF a = <<>> THEN b # <<>>
  ELSE IF b = <<>> THEN FALSE
  ELSE IF Head(a) # Head(b) THEN Head(a) < Head(b)
  ELSE TextLess(Tail(a), Tail(b))

TextLeq(a, b) == a = b \/ TextLess(a, b)

IsDigit(c) == c \in 0..9

\* /^([01]?[0-9]|2[0-3]):[0-5][0-9]$/
timeRegexTest(t) ==
  \/ /\ Len(t) = 4
     /\ IsDigit(t[1]) /\ t[2] = COLON /\ t[3] \in 0..5 /\ IsDigit(t[4])
  \/ /\ Len(t) = 5
     /\ \/ t[1] \in 0..1 /\ IsDigit(t[2])
        \/ t[1] = 2 /\ t[2] \in 0..3
     /\ t[3] = COLON /\ t[4] \in 0..5 /\ IsDigit(t[5])

\* hour and minute that dayjs(..., 'YYYY-MM-DD HH:mm') reads from a clock text
\* (HH matches one or two digits)
HourOf(t) == IF Len(t) = 4 THEN t[1] ELSE t[1] * 10 + t[2]
MinuteOf(t) == IF Len(t) = 4 THEN t[3] * 10 + t[4] ELSE t[4] * 10 + t[5]

\* timeToMinutes: minute of the day of a clock text
timeToMinutes(t) == HourOf(t) * 60 + MinuteOf(t)

\* dayjs(`${date} ${time}`): the instant of a date and a clock text
DateTime(date, t) == date * MinutesPerDay + timeToMinutes(t)

\* dayjs.format('HH:mm'): the zero-padded clock text of an instant
FormatHHmm(instant) ==
  LET m == instant % MinutesPerDay
      h == m \div 60
      mm == m % 60
  IN  <<h \div 10, h % 10, COLON, mm \div 10, mm % 10>>

\* dayjs.hour()
HourOfInstant(instant) == (instant % MinutesPerDay) \div 60

policyStartHour == HourOf(bookingPolicy.bookingHoursStart)
policyEndHour == HourOf(bookingPolicy.bookingHoursEnd)

----------------------------------------------------------------------------
(* Booking store: services/database.ts *)

NoId == <<>>

\* index of the row with booking_id = id (booking_id is UNIQUE), 0 if none
RowOf(bk, id) ==
  IF \E i \in 1..Len(bk) : bk[i].bookingId = id
  THEN CHOOSE i \in 1..Len(bk) : bk[i].bookingId = id
  ELSE 0

\* getBookingById: the row, or undefined
getBookingById(bk, id) == RowOf(bk, id)

\* SQLite LOWER() on the room codes the model uses
LOWER(s) == toLowerCase(s)

\* getRoomByName: WHERE LOWER(name) = LOWER(?)
getRoomByName(name) == { r \in roomTable : LOWER(r.name) = LOWER(name) }

\* getRoomById
getRoomById(id) == { r \in roomTable : r.id = id }

\* the result of a rooms statement: whether it threw, and the table after it
RoomOutcome(threw, rt) == [threw |-> threw, rooms |-> rt]

\* AUTOINCREMENT: one more than the largest id (rooms are never deleted here)
NextRoomId(rt) ==
  IF rt = {} THEN 1
  ELSE (CHOOSE m \in { r.id : r \in rt } : \A r \in rt : r.id <= m) + 1

\* createRoom: INSERT INTO rooms; name TEXT UNIQUE and email TEXT UNIQUE
\* compare with SQLite's default BINARY collation, byte for byte
createRoom(rt, room) ==
  IF \E r \in rt : r.name = room.name \/ r.email = room.email
  THEN RoomOutcome(TRUE, rt)
  ELSE RoomOutcome(FALSE, rt \cup { [id |-> NextRoomId(rt), name |-> room.name,
                                     email |-> room.email] })

\* an absent field of updateRoom's updates
Undefined == "undefined"

\* updateRoom: UPDATE rooms SET the given fields WHERE id; the name is not
\* among the fields, the email is
updateRoom(rt, id, updates) ==
  IF updates.email = Undefined THEN RoomOutcome(FALSE, rt)
  ELSE IF \E r \in rt : r.id # id /\ r.email = updates.email
            /\ \E q \in rt : q.id = id
       THEN RoomOutcome(TRUE, rt)
       ELSE RoomOutcome(FALSE,
              { IF r.id = id THEN [r EXCEPT !.email = updates.email] ELSE r :
                  r \in rt })

\* the WHERE clause of checkRoomAvailability for one row
ConflictRowAnyStatus(row, roomId, date, startTime, endTime, excludeBookingId) ==
  /\ row.roomId = roomId /\ row.date = date
  /\ \/ TextLess(row.startTime, endTime) /\ TextLess(startTime, row.endTime)
     \/ TextLess(row.startTime, endTime) /\ TextLess(endTime, row.endTime)
     \/ TextLeq(startTime, row.startTime) /\ TextLeq(row.endTime, endTime)
  /\ (excludeBookingId # NoId => row.bookingId # excludeBookingId)

ConflictRow(row, roomId, date, startTime, endTime, excludeBookingId) ==
  /\ row.roomId = roomId
  /\ row.date = date
  /\ row.status = "active"
  /\ \/ TextLess(row.startTime, endTime) /\ TextLess(startTime, row.endTime)
     \/ TextLess(row.startTime, endTime) /\ TextLess(endTime, row.endTime)
     \/ TextLeq(startTime, row.startTime) /\ TextLeq(row.endTime, endTime)
  /\ (excludeBookingId # NoId => row.bookingId # excludeBookingId)

\* checkRoomAvailability: COUNT(*) of the conflicting rows is 0
checkRoomAvailability(bk, roomId, date, startTime, endTime, excludeBookingId) ==
  Cardinality({ i \in 1..Len(bk) :
      ConflictRow(bk[i], roomId, date, startTime, endTime, excludeBookingId) }) = 0

\* createBooking: INSERT INTO bookings
createBooking(bk, row) == Append(bk, row)

\* a store that drops the row instead of marking it
updateBookingStatusDeletes(bk, id, status) ==
  SelectSeq(bk, LAMBDA row : row.bookingId # id)

\* updateBookingStatus: UPDATE bookings SET status WHERE booking_id
updateBookingStatus(bk, id, status) ==
  [ i \in 1..Len(bk) |->
      IF bk[i].bookingId = id THEN [bk[i] EXCEPT !.status = status] ELSE bk[i] ]

\* updateBookingTime: UPDATE bookings SET date, start_time, end_time
updateBookingTime(bk, id, date, startTime, endTime) ==
  [ i \in 1..Len(bk) |->
      IF bk[i].bookingId = id
      THEN [bk[i] EXCEPT !.date = date, !.startTime = startTime, !.endTime = endTime]
      ELSE bk[i] ]

\* updateBookingEndTime: UPDATE bookings SET end_time, duration_minutes
updateBookingEndTime(bk, id, endTime, durationMinutes) ==
  [ i \in 1..Len(bk) |->
      IF bk[i].bookingId = id
      THEN [bk[i] EXCEPT !.endTime = endTime, !.durationMinutes = durationMinutes]
      ELSE bk[i] ]

\* ORDER BY on TEXT columns: a row goes behind every row that does not sort
\* after it, so rows with equal keys keep their table order
RECURSIVE InsertOrdered(_, _)
InsertOrdered(e, sorted) ==
  IF sorted = <<>> THEN <<e>>
  ELSE IF TextLess(e.key, Head(sorted).key) THEN <<e>> \o sorted
  ELSE <<Head(sorted)>> \o InsertOrdered(e, Tail(sorted))

\* keyed is a sequence of [key, row]; the rows come back in key order
RECURSIVE OrderBy(_)
OrderBy(keyed) ==
  IF keyed = <<>> THEN <<>>
  ELSE InsertOrdered(keyed[Len(keyed)], OrderBy(SubSeq(keyed, 1, Len(keyed) - 1)))

\* the rows of bk ordered by the key Key gives each of them
Ordered(bk, Key(_)) ==
  LET sorted == OrderBy([i \in 1..Len(bk) |-> [key |-> Key(bk[i]), row |-> bk[i]]])
  IN  [i \in 1..Len(sorted) |-> sorted[i].row]

\* ORDER BY start_time
ByStartTime(row) == row.startTime

\* a query without the status filter
getBookingsByDateAnyStatus(bk, date, roomId) ==
  Ordered(SelectSeq(bk, LAMBDA row :
            /\ row.date = date
            /\ (roomId # <<>> => row.roomId = roomId[1])),
          ByStartTime)

\* SELECT ... WHERE date = ? AND status = 'active' [AND room_id = ?]
\* ORDER BY start_time; roomId is <<id>>, or <<>> when the caller gives no room
getBookingsByDate(bk, date, roomId) ==
  Ordered(SelectSeq(bk, LAMBDA row :
            /\ row.date = date
            /\ row.status = "active"
            /\ (roomId # <<>> => row.roomId = roomId[1])),
          ByStartTime)

\* ORDER BY date, start_time
ByDateAndStartTime(row) == <<row.date>> \o row.startTime

\* SQLite's date('now'): the calendar day of the instant in UTC, where the
\* process clock t runs utcOffset minutes ahead of UTC
dateNow(t, utcOffset) == (t - utcOffset) \div MinutesPerDay

\* a query that leaves out the requester
getBookingsByAnyUser(bk, userEmail, filter, sqlToday) ==
  Ordered(SelectSeq(bk, LAMBDA row : row.status = "active"), ByDateAndStartTime)

\* SELECT ... WHERE requested_by = ? AND status = 'active' <dateCondition>
\* ORDER BY date, start_time; sqlToday is date('now') and BETWEEN takes
\* both of its ends
getBookingsByUser(bk, userEmail, filter, sqlToday) ==
  Ordered(SelectSeq(bk, LAMBDA row :
            /\ row.requestedBy = userEmail
            /\ row.status = "active"
            /\ (filter = "today" => row.date = sqlToday)
            /\ (filter = "week" => sqlToday <= row.date /\ row.date <= sqlToday + 7)),
          ByDateAndStartTime)

----------------------------------------------------------------------------
(* Command parser: services/commandParser.ts *)

\* parseKoreanDate: a date token is today, tomorrow, an explicit valid
\* YYYY-MM-DD (its day number) or anything else; -1 stands for null
parseKoreanDate(tok, t) ==
  CASE tok.kind = "today" -> t \div MinutesPerDay
    [] tok.kind = "tomorrow" -> t \div MinutesPerDay + 1
    [] tok.kind = "ymd" -> tok.day
    [] OTHER -> -1

parseBookCommandOpenBounds(a, t) ==
  IF a.dateArg.kind = "other" THEN [success |-> FALSE]
  ELSE IF ~timeRegexTest(a.startTime) THEN [success |-> FALSE]
  ELSE IF a.duration <= 0 THEN [success |-> FALSE]
  ELSE IF a.duration <= bookingPolicy.minDurationMinutes THEN [success |-> FALSE]
  ELSE IF a.duration >= bookingPolicy.maxDurationMinutes THEN [success |-> FALSE]
  ELSE [ success |-> TRUE, roomName |-> a.roomName,
         date |-> parseKoreanDate(a.dateArg, t),
         startTime |-> a.startTime, duration |-> a.duration,
         title |-> a.title ]

\* parseBookCommand: validation of the date, start time and duration tokens
parseBookCommand(a, t) ==
  IF a.dateArg.kind = "other" THEN [success |-> FALSE]
  ELSE IF ~timeRegexTest(a.startTime) THEN [success |-> FALSE]
  ELSE IF a.duration <= 0 THEN [success |-> FALSE]
  ELSE IF a.duration < bookingPolicy.minDurationMinutes THEN [success |-> FALSE]
  ELSE IF a.duration > bookingPolicy.maxDurationMinutes THEN [success |-> FALSE]
  ELSE [ success |-> TRUE, roomName |-> a.roomName,
         date |-> parseKoreanDate(a.dateArg, t),
         startTime |-> a.startTime, duration |-> a.duration,
         title |-> a.title ]

\* parseMoveCommand
parseMoveCommand(a, t) ==
  IF a.dateArg.kind = "other" THEN [success |-> FALSE]
  ELSE IF ~timeRegexTest(a.startTime) THEN [success |-> FALSE]
  ELSE [ success |-> TRUE, bookingId |-> a.bookingId,
         date |-> parseKoreanDate(a.dateArg, t), startTime |-> a.startTime ]

\* parseExtendCommand
parseExtendCommand(a) ==
  IF a.additionalMinutes <= 0 THEN [success |-> FALSE]
  ELSE [ success |-> TRUE, bookingId |-> a.bookingId,
         additionalMinutes |-> a.additionalMinutes ]

----------------------------------------------------------------------------
(* Command text: services/commandParser.ts parseCommand and its helpers *)

\* the characters String.prototype.trim removes (those that occur here)
WhiteSpace == {" ", "\t", "\n"}

RECURSIVE trimStart(_)
trimStart(text) ==
  IF text # <<>> /\ Head(text) \in WhiteSpace THEN trimStart(Tail(text)) ELSE text

RECURSIVE trimEnd(_)
trimEnd(text) ==
  IF text # <<>> /\ text[Len(text)] \in WhiteSpace
  THEN trimEnd(SubSeq(text, 1, Len(text) - 1))
  ELSE text

\* String.prototype.trim
trim(text) == trimEnd(trimStart(text))

\* String.prototype.includes for one character
includes(text, c) == \E i \in 1..Len(text) : text[i] = c

\* Array.prototype.join(' ')
RECURSIVE join(_)
join(parts) ==
  IF parts = <<>> THEN <<>>
  ELSE IF Len(parts) = 1 THEN parts[1]
  ELSE parts[1] \o <<" ">> \o join(Tail(parts))

\* the loop of splitCommandParts from character i on
RECURSIVE SplitFrom(_, _, _, _, _, _)
SplitFrom(input, i, parts, current, inQuotes, quoteChar) ==
  IF i > Len(input)
  THEN IF Len(current) > 0 THEN Append(parts, current) ELSE parts
  ELSE LET char == input[i]
       IN  IF (char = "\"" \/ char = "'") /\ ~inQuotes
           THEN SplitFrom(input, i + 1, parts, current, TRUE, char)
           ELSE IF char = quoteChar /\ inQuotes
           THEN SplitFrom(input, i + 1, parts, current, FALSE, "")
           ELSE IF char = " " /\ ~inQuotes
           THEN IF Len(current) > 0
                THEN SplitFrom(input, i + 1, Append(parts, current), <<>>,
                               inQuotes, quoteChar)
                ELSE SplitFrom(input, i + 1, parts, current, inQuotes, quoteChar)
           ELSE SplitFrom(input, i + 1, parts, Append(current, char),
                          inQuotes, quoteChar)

\* a split at every space, quotes being ordinary characters
RECURSIVE SplitPlain(_, _, _, _)
SplitPlain(input, i, parts, current) ==
  IF i > Len(input)
  THEN IF Len(current) > 0 THEN Append(parts, current) ELSE parts
  ELSE IF input[i] = " "
  THEN SplitPlain(input, i + 1,
                  IF Len(current) > 0 THEN Append(parts, current) ELSE parts, <<>>)
  ELSE SplitPlain(input, i + 1, parts, Append(current, input[i]))

splitAtSpaces(input) == SplitPlain(input, 1, <<>>, <<>>)

\* splitCommandParts: split at spaces outside quotes, dropping the quotes
splitCommandParts(input) == SplitFrom(input, 1, <<>>, <<>>, FALSE, "")

\* commandMap: the command words and their types
commandMap ==
  { <<<<"[hyeon]", "[hwang]">>, "status">>,
    <<<<"[jo]", "[hoe]">>, "status">>,
    <<<<"[ye]", "[yak]">>, "book">>,
    <<<<"[chwi]", "[so]">>, "cancel">>,
    <<<<"[byeon]", "[gyeong]">>, "move">>,
    <<<<"[yeon]", "[jang]">>, "extend">>,
    <<<<"[nae]", "[ye]", "[yak]">>, "my">>,
    <<<<"[nae]", "[kkeo]">>, "my">>,
    <<<<"[mok]", "[rok]">>, "list">>,
    <<<<"[do]", "[um]", "[mal]">>, "help">>,
    <<<<"[do]", "[um]">>, "help">>,
    <<<<"?">>, "help">>,
    <<<<"s", "t", "a", "t", "u", "s">>, "status">>,
    <<<<"b", "o", "o", "k">>, "book">>,
    <<<<"c", "a", "n", "c", "e", "l">>, "cancel">>,
    <<<<"m", "o", "v", "e">>, "move">>,
    <<<<"e", "x", "t", "e", "n", "d">>, "extend">>,
    <<<<"m", "y">>, "my">>,
    <<<<"l", "i", "s", "t">>, "list">>,
    <<<<"h", "e", "l", "p">>, "help">> }

\* a lookup that falls back to help for an unknown word
commandTypeOrHelp(inputCommand) ==
  IF \E e \in commandMap : e[1] = inputCommand
  THEN (CHOOSE e \in commandMap : e[1] = inputCommand)[2]
  ELSE "help"

\* commandMap[inputCommand]; a key the literal does not have gives undefined
commandType(inputCommand) ==
  IF \E e \in commandMap : e[1] = inputCommand
  THEN (CHOOSE e \in commandMap : e[1] = inputCommand)[2]
  ELSE Undefined

\* the value of a decimal digit character
DigitValue(c) == (CHOOSE k \in 1..10 : Digits36[k] = c) - 1

IsDigitChar(c) == \E k \in 1..10 : Digits36[k] = c

\* the code of a character in a clock text: digits and ':' as above, any
\* other character one more than ':'
ClockCodes(text) ==
  [ i \in 1..Len(text) |->
      IF IsDigitChar(text[i]) THEN DigitValue(text[i])
      ELSE IF text[i] = ":" THEN COLON
      ELSE COLON + 1 ]

\* the value of a run of decimal digits
RECURSIVE DigitsValue(_)
DigitsValue(ds) ==
  IF ds = <<>> THEN 0
  ELSE 10 * DigitsValue(SubSeq(ds, 1, Len(ds) - 1)) + DigitValue(ds[Len(ds)])

\* the longest prefix of decimal digits
RECURSIVE DigitPrefix(_)
DigitPrefix(text) ==
  IF text # <<>> /\ IsDigitChar(Head(text))
  THEN <<Head(text)>> \o DigitPrefix(Tail(text))
  ELSE <<>>

\* parseInt(text, 10): leading white space and a sign are skipped, the
\* leading digits are the value, and there is none (NaN) without a digit
parseInt(text) ==
  LET body == trimStart(text)
      signed == body # <<>> /\ Head(body) \in {"+", "-"}
      digits == DigitPrefix(IF signed THEN Tail(body) ELSE body)
  IN  IF digits = <<>> THEN [nan |-> TRUE, value |-> 0]
      ELSE [nan |-> FALSE,
            value |-> IF signed /\ Head(body) = "-" THEN 0 - DigitsValue(digits)
                      ELSE DigitsValue(digits)]

\* the calendar date the model's day 0 stands for
Today0 == [year |-> 2026, month |-> 11, day |-> 5]

IsLeap(y) == (y % 4 = 0 /\ y % 100 # 0) \/ y % 400 = 0

DaysInMonth(y, m) ==
  IF m = 2 THEN (IF IsLeap(y) THEN 29 ELSE 28)
  ELSE IF m \in {4, 6, 9, 11} THEN 30 ELSE 31

RECURSIVE DaysBeforeMonth(_, _)
DaysBeforeMonth(y, m) ==
  IF m = 1 THEN 0 ELSE DaysBeforeMonth(y, m - 1) + DaysInMonth(y, m - 1)

\* days from 0001-01-01 to the date
DaysFromCivil(y, m, d) ==
  365 * (y - 1) + ((y - 1) \div 4) - ((y - 1) \div 100) + ((y - 1) \div 400)
    + DaysBeforeMonth(y, m) + (d - 1)

\* the day number of a calendar date
DayNumber(y, m, d) ==
  DaysFromCivil(y, m, d) - DaysFromCivil(Today0.year, Today0.month, Today0.day)

\* dayjs(arg, 'YYYY-MM-DD', true).isValid(): four, two and two digits
\* between dashes naming a date of the calendar
IsStrictDate(arg) ==
  /\ Len(arg) = 10
  /\ arg[5] = "-" /\ arg[8] = "-"
  /\ \A i \in {1, 2, 3, 4, 6, 7, 9, 10} : IsDigitChar(arg[i])
  /\ DigitsValue(SubSeq(arg, 1, 4)) >= 1
  /\ DigitsValue(SubSeq(arg, 6, 7)) \in 1..12
  /\ DigitsValue(SubSeq(arg, 9, 10)) \in
       1..DaysInMonth(DigitsValue(SubSeq(arg, 1, 4)), DigitsValue(SubSeq(arg, 6, 7)))

\* a reading of the date argument that compares the keywords as typed
DateTokenAsTyped(arg) ==
  IF arg = <<"t", "o", "d", "a", "y">> \/ arg = <<"[o]", "[neul]">> THEN [kind |-> "today"]
  ELSE IF arg = <<"t", "o", "m", "o", "r", "r", "o", "w">> \/ arg = <<"[nae]", "[il]">> THEN [kind |-> "tomorrow"]
  ELSE IF IsStrictDate(arg)
  THEN [kind |-> "ymd",
        day |-> DayNumber(DigitsValue(SubSeq(arg, 1, 4)),
                          DigitsValue(SubSeq(arg, 6, 7)),
                          DigitsValue(SubSeq(arg, 9, 10)))]
  ELSE [kind |-> "other"]

\* the date argument as parseKoreanDate reads it: lower-cased and compared
\* with the keywords, else parsed strictly as YYYY-MM-DD
DateToken(arg) ==
  LET lower == toLowerCase(arg)
  IN  IF lower = <<"t", "o", "d", "a", "y">> \/ lower = <<"[o]", "[neul]">> THEN [kind |-> "today"]
      ELSE IF lower = <<"t", "o", "m", "o", "r", "r", "o", "w">> \/ lower = <<"[nae]", "[il]">>
      THEN [kind |-> "tomorrow"]
      ELSE IF IsStrictDate(arg)
      THEN [kind |-> "ymd",
            day |-> DayNumber(DigitsValue(SubSeq(arg, 1, 4)),
                              DigitsValue(SubSeq(arg, 6, 7)),
                              DigitsValue(SubSeq(arg, 9, 10)))]
      ELSE [kind |-> "other"]

\* a parse failure
Failure == [success |-> FALSE]

\* a parsed command
Command(type, args) == [success |-> TRUE, type |-> type, args |-> args]

\* the title when none remains
Placeholder == <<"[hoe]", "[ui]">>

\* parseBookCommand from its argument list: the length check, parseInt, and
\* the title joined and trimmed, around the validation of parseBookCommand
parseBookArgs(args, t) ==
  IF Len(args) < 5 THEN Failure
  ELSE LET duration == parseInt(args[4])
           joined == trim(join(SubSeq(args, 5, Len(args))))
           p == parseBookCommand(
                  [ roomName |-> args[1], dateArg |-> DateToken(args[2]),
                    startTime |-> ClockCodes(args[3]), duration |-> duration.value,
                    title |-> IF joined = <<>> THEN Placeholder ELSE joined ], t)
       IN  IF duration.nan \/ ~p.success THEN Failure
           ELSE Command("book", p)

\* parseCancelCommand
parseCancelCommand(args) ==
  IF Len(args) < 1 THEN Failure
  ELSE Command("cancel", [success |-> TRUE, bookingId |-> toUpperCase(args[1])])

\* parseMoveCommand from its argument list; the identifier is upper-cased
parseMoveArgs(args, t) ==
  IF Len(args) < 3 THEN Failure
  ELSE LET p == parseMoveCommand(
                  [ bookingId |-> toUpperCase(args[1]),
                    dateArg |-> DateToken(args[2]),
                    startTime |-> ClockCodes(args[3]) ], t)
       IN  IF ~p.success THEN Failure ELSE Command("move", p)

\* parseExtendCommand from its argument list; the identifier is upper-cased
parseExtendArgs(args) ==
  IF Len(args) < 2 THEN Failure
  ELSE LET additionalMinutes == parseInt(args[2])
           p == parseExtendCommand(
                  [ bookingId |-> toUpperCase(args[1]),
                    additionalMinutes |-> additionalMinutes.value ])
       IN  IF additionalMinutes.nan \/ ~p.success THEN Failure
           ELSE Command("extend", p)

\* parseStatusCommand: no argument or the today keyword gives today's date
\* alone; else a first argument holding '-' and ':' is a time range of today,
\* any other is a date; a second argument is the time range
parseStatusCommand(args, t) ==
  IF Len(args) = 0 \/ toLowerCase(args[1]) = <<"t", "o", "d", "a", "y">> \/ args[1] = <<"[o]", "[neul]">>
  THEN Command("status", [date |-> t \div MinutesPerDay])
  ELSE LET firstArg == args[1]
           isRange == includes(firstArg, "-") /\ includes(firstArg, ":")
           withFirst ==
             IF isRange
             THEN [date |-> t \div MinutesPerDay, timeRange |-> firstArg]
             ELSE [date |-> parseKoreanDate(DateToken(firstArg), t)]
       IN  IF ~isRange /\ DateToken(firstArg).kind = "other" THEN Failure
           ELSE IF Len(args) >= 2
           THEN Command("status", [date |-> withFirst.date, timeRange |-> args[2]])
           ELSE Command("status", withFirst)

\* parseMyCommand
parseMyCommand(args) ==
  LET filterArg == IF Len(args) >= 1 THEN toLowerCase(args[1]) ELSE <<>>
  IN  Command("my",
        [filter |-> IF filterArg = <<"t", "o", "d", "a", "y">> \/ filterArg = <<"[o]", "[neul]">> THEN "today"
                    ELSE IF filterArg = <<"w", "e", "e", "k">> \/ filterArg = <<"[i]", "[beon]", "[ju]">>
                    THEN "week"
                    ELSE "all"])

\* parseListCommand
parseListCommand(args, t) ==
  IF Len(args) = 0 \/ toLowerCase(args[1]) = <<"r", "o", "o", "m", "s">> \/ args[1] = <<"[hoe]", "[ui]", "[sil]">>
  THEN Command("list", [target |-> "rooms"])
  ELSE IF DateToken(args[1]).kind = "other" THEN Failure
  ELSE Command("list", [target |-> "bookings",
                        date |-> parseKoreanDate(DateToken(args[1]), t)])

\* parseCommand
parseCommand(text, t) ==
  LET trimmedData == trim(text)
      parts == splitCommandParts(trimmedData)
      type == IF parts = <<>> THEN Undefined ELSE commandType(toLowerCase(parts[1]))
      args == IF parts = <<>> THEN <<>> ELSE Tail(parts)
  IN  IF trimmedData = <<>> THEN Command("help", [raw |-> <<>>])
      ELSE CASE type = Undefined -> Failure
             [] type = "help" -> Command("help", [raw |-> trimmedData])
             [] type = "status" -> parseStatusCommand(args, t)
             [] type = "book" -> parseBookArgs(args, t)
             [] type = "cancel" -> parseCancelCommand(args)
             [] type = "move" -> parseMoveArgs(args, t)
             [] type = "extend" -> parseExtendArgs(args)
             [] type = "my" -> parseMyCommand(args)
             [] type = "list" -> parseListCommand(args, t)
             [] OTHER -> Failure

----------------------------------------------------------------------------
(* Command handler: services/commandHandler.ts *)

Outcome(code, bk) == [code |-> code, bookings |-> bk]

\* handleBookCommand, up to and including the availability check:
\* the failure code, or "PASS"
BookCheck(bk, t, args) ==
  LET found == getRoomByName(args.roomName)
      startDateTime == DateTime(args.date, args.startTime)
      endDateTime == startDateTime + args.duration
      endTime == FormatHHmm(endDateTime)
  IN  IF found = {} THEN "ROOM_NOT_FOUND"
      ELSE IF startDateTime < t THEN "PAST_TIME"
      ELSE IF \/ HourOfInstant(startDateTime) < policyStartHour
              \/ HourOfInstant(endDateTime) > policyEndHour
           THEN "OUTSIDE_HOURS"
      ELSE IF ~checkRoomAvailability(bk, (CHOOSE r \in found : TRUE).id,
                                     args.date, args.startTime, endTime, NoId)
           THEN "CONFLICT"
      ELSE "PASS"

\* a bookings table whose booking_id column is not UNIQUE
BookWriteNoUnique(bk, args, writer, bookingId) ==
  LET room == CHOOSE r \in getRoomByName(args.roomName) : TRUE
      endTime == FormatHHmm(DateTime(args.date, args.startTime) + args.duration)
  IN  Outcome("OK", createBooking(bk,
             [ bookingId |-> bookingId, roomId |-> room.id,
               title |-> args.title, date |-> args.date,
               startTime |-> args.startTime, endTime |-> endTime,
               durationMinutes |-> args.duration, requestedBy |-> writer,
               status |-> "active" ]))

\* handleBookCommand, the write: createBooking with the generated identifier;
\* the UNIQUE constraint on booking_id makes the INSERT throw (BOOKING_ERROR)
BookWrite(bk, args, writer, bookingId) ==
  LET room == CHOOSE r \in getRoomByName(args.roomName) : TRUE
      endTime == FormatHHmm(DateTime(args.date, args.startTime) + args.duration)
  IN  IF getBookingById(bk, bookingId) # 0 THEN Outcome("BOOKING_ERROR", bk)
      ELSE Outcome("OK", createBooking(bk,
             [ bookingId |-> bookingId, roomId |-> room.id,
               title |-> args.title, date |-> args.date,
               startTime |-> args.startTime, endTime |-> endTime,
               durationMinutes |-> args.duration, requestedBy |-> writer,
               status |-> "active" ]))

handleBookCommand(bk, t, args, writer, bookingId) ==
  LET c == BookCheck(bk, t, args)
  IN  IF c = "PASS" THEN BookWrite(bk, args, writer, bookingId) ELSE Outcome(c, bk)

CancelCheckAnyStatus(bk, args, writer) ==
  LET i == getBookingById(bk, args.bookingId)
  IN  IF i = 0 THEN "BOOKING_NOT_FOUND"
      ELSE IF bk[i].requestedBy # writer THEN "UNAUTHORIZED"
      ELSE "PASS"

\* handleCancelCommand, its checks: the failure code, or "PASS"
CancelCheck(bk, args, writer) ==
  LET i == getBookingById(bk, args.bookingId)
  IN  IF i = 0 THEN "BOOKING_NOT_FOUND"
      ELSE IF bk[i].status # "active" THEN "INVALID_STATUS"
      ELSE IF bk[i].requestedBy # writer THEN "UNAUTHORIZED"
      ELSE "PASS"

\* handleCancelCommand, the write: updateBookingStatus
CancelWrite(bk, args) ==
  Outcome("OK", updateBookingStatus(bk, args.bookingId, "cancelled"))

handleCancelCommand(bk, args, writer) ==
  LET c == CancelCheck(bk, args, writer)
  IN  IF c = "PASS" THEN CancelWrite(bk, args) ELSE Outcome(c, bk)

MoveCheckNoOwner(bk, args, writer) ==
  LET i == getBookingById(bk, args.bookingId)
      newEndTime == FormatHHmm(DateTime(args.date, args.startTime)
                               + bk[i].durationMinutes)
  IN  IF i = 0 THEN "BOOKING_NOT_FOUND"
      ELSE IF getRoomById(bk[i].roomId) = {} THEN "ROOM_NOT_FOUND"
      ELSE IF ~checkRoomAvailability(bk, bk[i].roomId, args.date, args.startTime,
                                     newEndTime, args.bookingId)
           THEN "CONFLICT"
      ELSE "PASS"

\* handleMoveCommand, up to and including the availability check
MoveCheck(bk, args, writer) ==
  LET i == getBookingById(bk, args.bookingId)
      newEndTime == FormatHHmm(DateTime(args.date, args.startTime)
                               + bk[i].durationMinutes)
  IN  IF i = 0 THEN "BOOKING_NOT_FOUND"
      ELSE IF bk[i].requestedBy # writer THEN "UNAUTHORIZED"
      ELSE IF getRoomById(bk[i].roomId) = {} THEN "ROOM_NOT_FOUND"
      ELSE IF ~checkRoomAvailability(bk, bk[i].roomId, args.date, args.startTime,
                                     newEndTime, args.bookingId)
           THEN "CONFLICT"
      ELSE "PASS"

\* handleMoveCommand, the write: updateBookingTime
MoveWrite(bk, args) ==
  LET i == getBookingById(bk, args.bookingId)
      newEndTime == FormatHHmm(DateTime(args.date, args.startTime)
                               + bk[i].durationMinutes)
  IN  Outcome("OK", updateBookingTime(bk, args.bookingId, args.date,
                                      args.startTime, newEndTime))

handleMoveCommand(bk, args, writer) ==
  LET c == MoveCheck(bk, args, writer)
  IN  IF c = "PASS" THEN MoveWrite(bk, args) ELSE Outcome(c, bk)

ExtendCheckAtLeast(bk, args, writer) ==
  LET i == getBookingById(bk, args.bookingId)
      newEndTime == FormatHHmm(DateTime(bk[i].date, bk[i].endTime)
                               + args.additionalMinutes)
      newTotalMinutes == bk[i].durationMinutes + args.additionalMinutes
  IN  IF i = 0 THEN "BOOKING_NOT_FOUND"
      ELSE IF bk[i].requestedBy # writer THEN "UNAUTHORIZED"
      ELSE IF getRoomById(bk[i].roomId) = {} THEN "ROOM_NOT_FOUND"
      ELSE IF newTotalMinutes >= bookingPolicy.maxDurationMinutes THEN "MAX_DURATION"
      ELSE IF ~checkRoomAvailability(bk, bk[i].roomId, bk[i].date, bk[i].endTime,
                                     newEndTime, args.bookingId)
           THEN "CONFLICT"
      ELSE "PASS"

\* handleExtendCommand, up to and including the availability check
ExtendCheck(bk, args, writer) ==
  LET i == getBookingById(bk, args.bookingId)
      newEndTime == FormatHHmm(DateTime(bk[i].date, bk[i].endTime)
                               + args.additionalMinutes)
      newTotalMinutes == bk[i].durationMinutes + args.additionalMinutes
  IN  IF i = 0 THEN "BOOKING_NOT_FOUND"
      ELSE IF bk[i].requestedBy # writer THEN "UNAUTHORIZED"
      ELSE IF getRoomById(bk[i].roomId) = {} THEN "ROOM_NOT_FOUND"
      ELSE IF newTotalMinutes > bookingPolicy.maxDurationMinutes THEN "MAX_DURATION"
      ELSE IF ~checkRoomAvailability(bk, bk[i].roomId, bk[i].date, bk[i].endTime,
                                     newEndTime, args.bookingId)
           THEN "CONFLICT"
      ELSE "PASS"

\* handleExtendCommand, the write: updateBookingEndTime
ExtendWrite(bk, args) ==
  LET i == getBookingById(bk, args.bookingId)
      newEndTime == FormatHHmm(DateTime(bk[i].date, bk[i].endTime)
                               + args.additionalMinutes)
      newTotalMinutes == bk[i].durationMinutes + args.additionalMinutes
  IN  Outcome("OK", updateBookingEndTime(bk, args.bookingId, newEndTime,
                                         newTotalMinutes))

handleExtendCommandWriteFirst(bk, args, writer) ==
  LET c == ExtendCheck(bk, args, writer)
  IN  IF c = "PASS" THEN ExtendWrite(bk, args)
      ELSE IF c = "MAX_DURATION" THEN Outcome(c, ExtendWrite(bk, args).bookings)
      ELSE Outcome(c, bk)

handleExtendCommand(bk, args, writer) ==
  LET c == ExtendCheck(bk, args, writer)
  IN  IF c = "PASS" THEN ExtendWrite(bk, args) ELSE Outcome(c, bk)

\* String.prototype.split for a one-character separator: every piece,
\* the empty ones too
RECURSIVE SplitAt(_, _, _, _)
SplitAt(text, sep, parts, current) ==
  IF text = <<>> THEN Append(parts, current)
  ELSE IF Head(text) = sep THEN SplitAt(Tail(text), sep, Append(parts, current), <<>>)
  ELSE SplitAt(Tail(text), sep, parts, Append(current, Head(text)))

split(text, sep) == SplitAt(text, sep, <<>>, <<>>)

\* isSlotBooked: the half-hour slot overlaps the clock interval of a booking
isSlotBooked(rows, slotHour, isHalf) ==
  LET slotMinutes == slotHour * 60 + (IF isHalf THEN 30 ELSE 0)
      slotEndMinutes == slotMinutes + 30
  IN  \E i \in 1..Len(rows) :
        /\ slotMinutes < timeToMinutes(rows[i].endTime)
        /\ slotEndMinutes > timeToMinutes(rows[i].startTime)

\* generateTimeTableTUI: one line per room, labelled with the room's name,
\* of two marks per hour from startHour up to endHour (TRUE is a booked
\* slot, FALSE an available one); an hour that is no number gives no slot
generateTimeTableTUI(bk, rt, date, startHour, endHour) ==
  LET hours == IF startHour.nan \/ endHour.nan THEN 0
               ELSE IF endHour.value > startHour.value
               THEN endHour.value - startHour.value ELSE 0
  IN  [ room \in rt |->
          [ label |-> room.name,
            slots |-> [ k \in 1..(2 * hours) |->
                          isSlotBooked(getBookingsByDate(bk, date, <<room.id>>),
                                       startHour.value + ((k - 1) \div 2),
                                       k % 2 = 0) ] ] ]

\* the hours of the time table: the policy's booking hours, or those of
\* args.timeRange when both of its sides are non-empty
StatusHours(args) ==
  LET policyHours == [ startHour |-> [nan |-> FALSE, value |-> policyStartHour],
                       endHour |-> [nan |-> FALSE, value |-> policyEndHour] ]
  IN  IF "timeRange" \in DOMAIN args /\ args.timeRange # <<>>
      THEN LET sides == split(args.timeRange, "-")
           IN  IF Len(sides) >= 2 /\ sides[1] # <<>> /\ sides[2] # <<>>
               THEN [ startHour |-> parseInt(split(sides[1], ":")[1]),
                      endHour |-> parseInt(split(sides[2], ":")[1]) ]
               ELSE policyHours
      ELSE policyHours

\* handleStatusCommand: the result, the lines of its time table and the
\* bookings of its detail list
handleStatusCommand(bk, rt, args) ==
  IF rt = {}
  THEN [ success |-> TRUE, code |-> "OK", timeTable |-> <<>>, details |-> <<>> ]
  ELSE LET h == StatusHours(args)
       IN  [ success |-> TRUE, code |-> "OK",
             timeTable |-> generateTimeTableTUI(bk, rt, args.date, h.startHour, h.endHour),
             details |-> [ room \in rt |-> getBookingsByDate(bk, args.date, <<room.id>>) ] ]

\* handleMyCommand: the result and the bookings it lists
handleMyCommand(bk, args, writer, sqlToday) ==
  [ success |-> TRUE, code |-> "OK",
    bookings |-> getBookingsByUser(bk, writer, args.filter, sqlToday) ]

----------------------------------------------------------------------------
(* Inputs of the model *)

Writers == {"u1", "u2"}

\* room tokens: "a" names room A whatever the letter case
RoomTokens == { <<"a">> }

T(h1, h2, m1, m2) == <<h1, h2, COLON, m1, m2>>

\* start-time tokens: a single-digit hour, zero-padded ones, late evening
StartTokens == { <<9, COLON, 0, 0>>, T(0,9,0,0), T(1,0,0,0), T(2,3,3,0) }

DateTokens == { [kind |-> "today"] }

Durations == {60}

AddMinutes == {180}

\* the title of a book command
Titles == { <<"s", "y", "n", "c">> }

\* identifiers generateBookingId may return
\* toString(36) of a natural number
RECURSIVE Base36(_)
Base36(n) ==
  IF n < 36 THEN << Digits36[n + 1] >>
  ELSE Base36(n \div 36) \o << Digits36[(n % 36) + 1] >>

\* the last four base-36 digits of a number
LowFour(n) ==
  << Digits36[((n \div (36 * 36 * 36)) % 36) + 1],
     Digits36[((n \div (36 * 36)) % 36) + 1],
     Digits36[((n \div 36) % 36) + 1], Digits36[(n % 36) + 1] >>

\* Date.now().toString(36): milliseconds since the epoch do not fit the
\* integers evaluated here, so a clock value ms is the pair hi, lo with
\* ms = hi * 36^4 + lo and 0 <= lo < 36^4
toString36(ms) == Base36(ms.hi) \o LowFour(ms.lo)

\* Date.now() of three books in November 2026, one millisecond apart
ClockValues ==
  << [hi |-> 1068041, lo |-> 479], [hi |-> 1068041, lo |-> 480],
     [hi |-> 1068041, lo |-> 481] >>

\* Math.random().toString(36).substring(2, 5): up to three base-36 digits
Randoms == { <<"x", "7", "k">>, <<"i">>, <<>> }

\* generateBookingId without the upper-casing
formatBookingIdAsIs(ms, random) ==
  substring0(<<"R", "-">> \o toString36(ms) \o random, 10)

\* generateBookingId: `R-${timestamp}${random}`.substring(0, 10), timestamp
\* and random upper-cased
formatBookingId(ms, random) ==
  substring0(<<"R", "-">> \o toUpperCase(toString36(ms)) \o toUpperCase(random), 10)

\* the identifiers of the three clock values
BookingIds ==
  [ i \in 1..Len(ClockValues) |->
      formatBookingId(ClockValues[i], CHOOSE r \in Randoms : Len(r) = 3) ]

IdSet == { BookingIds[i] : i \in 1..Len(BookingIds) }

\* generateBookingId: `R-${timestamp}${random}`.substring(0, 10) is "R-" and
\* the eight base-36 digits of Date.now(): an identifier already stored (a
\* book at the clock value of an earlier one) or one not stored yet
generateBookingId(bk) ==
  { bk[i].bookingId : i \in 1..Len(bk) }
    \cup (IF Len(bk) < Len(BookingIds) THEN {BookingIds[Len(bk) + 1]} ELSE {})

----------------------------------------------------------------------------
(* Command texts: the data field of the webhook payload, read by parseCommand *)

\* the words for today and for tomorrow, in mixed letter case
TodayArgs ==
  { <<"t", "o", "d", "a", "y">>,
    <<"T", "O", "D", "A", "Y">>,
    <<"t", "o", "D", "a", "y">>,
    <<"[o]", "[neul]">> }

TomorrowArgs ==
  { <<"t", "o", "m", "o", "r", "r", "o", "w">>,
    <<"T", "o", "m", "o", "r", "r", "o", "w">>,
    <<"T", "O", "M", "O", "R", "R", "O", "W">>,
    <<"[nae]", "[il]">> }

\* explicit dates of the calendar: tomorrow, yesterday, a leap day
ValidDateArgs ==
  { <<"2", "0", "2", "6", "-", "1", "1", "-", "0", "6">>,
    <<"2", "0", "2", "6", "-", "1", "1", "-", "0", "4">>,
    <<"2", "0", "2", "8", "-", "0", "2", "-", "2", "9">> }

\* texts that are no date: a day or month out of range, a short form, a
\* word, a time range, the rooms keywords of list
OtherDateArgs ==
  { <<"2", "0", "2", "6", "-", "0", "2", "-", "3", "0">>,
    <<"2", "0", "2", "6", "-", "1", "3", "-", "0", "1">>,
    <<"2", "0", "2", "6", "-", "1", "-", "7">>,
    <<"s", "o", "m", "e", "d", "a", "y">>,
    <<"0", "9", ":", "0", "0", "-", "1", "8", ":", "0", "0">>,
    <<"r", "o", "o", "m", "s">>,
    <<"R", "o", "o", "m", "s">>,
    <<"[hoe]", "[ui]", "[sil]">> }

DateArgs == TodayArgs \cup TomorrowArgs \cup ValidDateArgs \cup OtherDateArgs

\* HH:mm-HH:mm time ranges
TimeRangeArgs == { <<"0", "9", ":", "0", "0", "-", "1", "8", ":", "0", "0">> }

\* start time arguments the regular expression accepts, and some it rejects
ValidStartArgs == { <<"0", "9", ":", "0", "0">>, <<"9", ":", "3", "0">> }

OtherStartArgs == { <<"2", "4", ":", "0", "0">>, <<"9", "h">> }

\* duration arguments within the policy bounds (as parseInt reads them), and
\* outside or not a number
ValidDurationArgs == { <<"6", "0">>, <<"1", "5">> }

OtherDurationArgs == { <<"1", "4">>, <<"2", "4", "1">>, <<"a", "b", "c">> }

\* titles to be quoted: with inner spaces, with spaces around, blank, empty
QuotedTitles ==
  { <<"x", " ", "y">>,
    <<" ", "x", " ", "y", " ">>,
    <<"i", "t", "'", "s", " ", "a", " ", "b">>,
    <<" ">>,
    <<>> }

\* the text of a command: its words joined by single spaces
CommandText(words) == join(words)

\* a title in double quotes
Quoted(title) == <<"\"">> \o title \o <<"\"">>

\* book <room> <date> <start> <duration> "<title>"
BookTexts ==
  { CommandText(<<w, r, d, st, du, Quoted(tt)>>) :
      w \in {<<"b", "o", "o", "k">>, <<"[ye]", "[yak]">>}, r \in RoomTokens, d \in {<<"t", "o", "d", "a", "y">>}, st \in ValidStartArgs,
      du \in ValidDurationArgs, tt \in QuotedTitles }
  \cup { CommandText(<<<<"b", "o", "o", "k">>, r, d, <<"0", "9", ":", "0", "0">>, <<"6", "0">>, Quoted(<<"x", " ", "y">>)>>) :
           r \in RoomTokens, d \in DateArgs }
  \cup { CommandText(<<<<"b", "o", "o", "k">>, r, <<"t", "o", "d", "a", "y">>, st, du, Quoted(<<"x", " ", "y">>)>>) :
           r \in RoomTokens, st \in ValidStartArgs \cup OtherStartArgs,
           du \in ValidDurationArgs \cup OtherDurationArgs }
  \cup { CommandText(<<<<"b", "o", "o", "k">>, r, <<"t", "o", "d", "a", "y">>, <<"0", "9", ":", "0", "0">>, <<"6", "0">>>>) : r \in RoomTokens }
  \cup { CommandText(<<<<"b", "o", "o", "k">>, r, <<"t", "o", "d", "a", "y">>, <<"0", "9", ":", "0", "0">>, <<"6", "0">>, <<"x">>, <<"y">>>>) :
           r \in RoomTokens }

\* status, status <date>, status <date> <range>, status <range>
StatusTexts ==
  { CommandText(<<<<"s", "t", "a", "t", "u", "s">>>>) }
  \cup { CommandText(<<<<"s", "t", "a", "t", "u", "s">>, d>>) : d \in DateArgs }
  \cup { CommandText(<<<<"s", "t", "a", "t", "u", "s">>, d, tr>>) : d \in DateArgs, tr \in TimeRangeArgs }
  \cup { CommandText(<<<<"s", "t", "a", "t", "u", "s">>, tr>>) : tr \in TimeRangeArgs }

\* identifiers as typed: those generateBookingId makes, in upper, lower and
\* mixed letter case
IdArgs ==
  UNION { { BookingIds[i], toLowerCase(BookingIds[i]),
            SubSeq(BookingIds[i], 1, 5) \o toLowerCase(SubSeq(BookingIds[i], 6, 10)) } :
          i \in 1..2 }

\* move <id> <date> <start>
MoveTexts ==
  { CommandText(<<<<"m", "o", "v", "e">>, id, d, <<"0", "9", ":", "0", "0">>>>) : id \in {toLowerCase(BookingIds[1])},
                                          d \in DateArgs }
  \cup { CommandText(<<<<"m", "o", "v", "e">>, id, <<"t", "o", "d", "a", "y">>, st>>) :
           id \in IdArgs, st \in ValidStartArgs \cup OtherStartArgs }
  \cup { CommandText(<<<<"m", "o", "v", "e">>, id, <<"t", "o", "d", "a", "y">>>>) : id \in IdArgs }

\* list, list <date>
ListTexts ==
  { CommandText(<<<<"l", "i", "s", "t">>>>) } \cup { CommandText(<<<<"l", "i", "s", "t">>, d>>) : d \in DateArgs }

\* cancel <id>, extend <id> <minutes>, my <filter>
OtherTexts ==
  { CommandText(<<<<"c", "a", "n", "c", "e", "l">>, id>>) : id \in IdArgs }
  \cup { CommandText(<<<<"c", "a", "n", "c", "e", "l">>>>) }
  \cup { CommandText(<<<<"e", "x", "t", "e", "n", "d">>, id, du>>) :
           id \in IdArgs, du \in ValidDurationArgs \cup OtherDurationArgs }
  \cup { CommandText(<<<<"m", "y">>, f>>) : f \in TodayArgs \cup { <<"w", "e", "e", "k">> } }

\* a command word as typed: as the table has it, upper-cased, capitalised
Spellings(word) ==
  { word, toUpperCase(word), toUpperCase(SubSeq(word, 1, 1)) \o Tail(word) }

\* first words that are no command word in any letter case
NoKeyWords ==
  { <<"b", "o", "o">>,
    <<"b", "o", "o", "k", "s">>,
    <<"c", "o", "n", "s", "t", "r", "u", "c", "t", "o", "r">>,
    <<"[ye]">> }

FirstWords == UNION { Spellings(e[1]) : e \in commandMap } \cup NoKeyWords

\* what may follow the first word
RestWords == { <<>>, << <<"t", "o", "d", "a", "y">> >> }

\* empty and blank texts
BlankTexts == { <<>>, <<" ">>, <<" ", " ", "\t">> }

\* texts that are not blank and hold no command word: an empty quoted string
\* (no token at all), a quoted space
WordlessTexts == { <<"\"", "\"">>, <<"'", " ", "'">> }

\* a first word alone or with an argument, and texts without a word
WordTexts ==
  { CommandText(<<w>> \o rest) : w \in FirstWords, rest \in RestWords }
    \cup BlankTexts \cup WordlessTexts

CommandTexts ==
  BookTexts \cup StatusTexts \cup MoveTexts \cup ListTexts \cup OtherTexts
    \cup WordTexts

----------------------------------------------------------------------------
(* Requests in flight: routes/webhook.ts router.post('/command') and the
   steps of handleCommand *)

\* requests that may be in flight at once
MaxInflight == 2

Slots == 1..MaxInflight

NoArgs ==
  [ roomName |-> <<>>, dateArg |-> [kind |-> "today"], startTime |-> <<>>,
    duration |-> 0, title |-> <<>>, bookingId |-> NoId, additionalMinutes |-> 0 ]

IdleReq == [pc |-> "idle", type |-> "none", writer |-> "", args |-> NoArgs, code |-> ""]

\* no run of handleCommand is under way
NoRun ==
  [ pc |-> "idle", type |-> "none", writer |-> "", args |-> NoArgs,
    fault |-> "none", code |-> "", audits |-> 0 ]

----------------------------------------------------------------------------
(* The state machine: one action per command, run to completion *)

\* values of JavaScript as a request or the environment may carry them:
\* undefined, a string, a number (written by its digits)
JsUndefined == [kind |-> "undefined", text |-> ""]
JsString(text) == [kind |-> "string", text |-> text]
JsNumber(digits) == [kind |-> "number", text |-> digits]

\* !value
Falsy(value) ==
  \/ value.kind = "undefined"
  \/ value.kind = "string" /\ value.text = ""
  \/ value.kind = "number" /\ value.text = "0"

\* no HTTP request so far
NoRequest == [route |-> "", token |-> JsUndefined, apiKey |-> JsUndefined]

\* the environment the process was started in (the Dockerfile sets
\* NODE_ENV=production), the last HTTP request and its answer, and the
\* number of rows of audit_logs
NoHttp ==
  [ nodeEnv |-> "production", outgoingToken |-> "tok", adminKey |-> JsString("key"),
    request |-> NoRequest, status |-> "", handled |-> FALSE, auditLogs |-> 0 ]

NoLast == [ type |-> "none", code |-> "", writer |-> "" ]

\* no command text parsed yet
NoParse == [ success |-> FALSE, type |-> "none" ]

Init ==
  /\ bookings = <<>>
  /\ now = DateTime(0, T(0,8,3,0))
  /\ last = NoLast
  /\ reqs = [s \in Slots |-> IdleReq]
  /\ running = 0
  /\ hc = NoRun
  /\ roomTable = rooms
  /\ data = <<>>
  /\ parsed = NoParse
  /\ http = NoHttp

\* the outcome of handleCommand for a parsed command, PARSE_ERROR otherwise
Handled(p, out) == IF p.success THEN out ELSE Outcome("PARSE_ERROR", bookings)

\* the response of the last command: its kind, result code and requester
Response(type, code, writer) == [type |-> type, code |-> code, writer |-> writer]

\* handleCommand for a book command
Book(writer, a, bookingId) ==
  \E p \in {parseBookCommand(a, now)} :
  \E out \in {Handled(p, handleBookCommand(bookings, now, p, writer, bookingId))} :
    /\ Len(out.bookings) <= MaxBookings
    /\ bookings' = out.bookings
    /\ last' = Response("book", out.code, writer)
    /\ UNCHANGED <<now, reqs, running, hc, roomTable, data, parsed, http>>

\* handleCommand for a cancel command
Cancel(writer, a) ==
  \E out \in {handleCancelCommand(bookings, a, writer)} :
    /\ bookings' = out.bookings
    /\ last' = Response("cancel", out.code, writer)
    /\ UNCHANGED <<now, reqs, running, hc, roomTable, data, parsed, http>>

\* handleCommand for a move command
Move(writer, a) ==
  \E p \in {parseMoveCommand(a, now)} :
  \E out \in {Handled(p, handleMoveCommand(bookings, p, writer))} :
    /\ bookings' = out.bookings
    /\ last' = Response("move", out.code, writer)
    /\ UNCHANGED <<now, reqs, running, hc, roomTable, data, parsed, http>>

\* handleCommand for an extend command
Extend(writer, a) ==
  \E p \in {parseExtendCommand(a)} :
  \E out \in {Handled(p, handleExtendCommand(bookings, p, writer))} :
    /\ bookings' = out.bookings
    /\ last' = Response("extend", out.code, writer)
    /\ UNCHANGED <<now, reqs, running, hc, roomTable, data, parsed, http>>

Next ==
  \/ \E w \in Writers, r \in RoomTokens, d \in DateTokens, s \in StartTokens,
        n \in Durations, tt \in Titles, id \in generateBookingId(bookings) :
       Book(w, [roomName |-> r, dateArg |-> d, startTime |-> s, duration |-> n,
                title |-> tt], id)
  \/ \E w \in Writers, id \in IdSet : Cancel(w, [bookingId |-> id])
  \/ \E w \in Writers, id \in IdSet, d \in DateTokens, s \in StartTokens :
       Move(w, [bookingId |-> id, dateArg |-> d, startTime |-> s])
  \/ \E w \in Writers, id \in IdSet, n \in AddMinutes :
       Extend(w, [bookingId |-> id, additionalMinutes |-> n])

Spec == Init /\ [][Next]_vars

----------------------------------------------------------------------------
(* The state machine of requests in flight.  A request's callback holds the
   JavaScript thread (running) from its start until it waits for I/O. *)

SuspendsAtStore(pc) == pc = "checked"

\* Stages at which a request waits for I/O, so that the callbacks of other
\* requests run before it continues: none. Every store call is a synchronous
\* better-sqlite3 call, the handlers hold no await between the availability
\* check and the write, and the awaits of handleCommand and of the route wait
\* on settled promises, whose continuations run before the next callback.
Suspends(pc) == FALSE

Release(slot, pc) == IF Suspends(pc) \/ pc = "idle" THEN 0 ELSE slot

\* the request may take its next step
Holds(slot) ==
  \/ running = slot
  \/ running = 0 /\ Suspends(reqs[slot].pc)

StepTo(slot, req) ==
  /\ reqs' = [reqs EXCEPT ![slot] = req]
  /\ running' = Release(slot, req.pc)

\* a webhook request arrives: its callback is queued
Arrive(slot, type, writer, a) ==
  /\ reqs[slot].pc = "idle"
  /\ reqs' = [reqs EXCEPT ![slot] =
       [pc |-> "arrived", type |-> type, writer |-> writer, args |-> a, code |-> ""]]
  /\ UNCHANGED <<bookings, now, last, running, hc, roomTable, data, parsed, http>>

\* the route callback runs and calls handleCommand
Start(slot) ==
  /\ running = 0
  /\ reqs[slot].pc = "arrived"
  /\ StepTo(slot, [reqs[slot] EXCEPT !.pc = "received"])
  /\ UNCHANGED <<bookings, now, last, hc, roomTable, data, parsed, http>>

\* the arguments parseCommand returns for the request
Parsed(r) ==
  CASE r.type = "book" -> parseBookCommand(r.args, now)
    [] r.type = "move" -> parseMoveCommand(r.args, now)
    [] r.type = "extend" -> parseExtendCommand(r.args)
    [] OTHER -> [success |-> TRUE, bookingId |-> r.args.bookingId]

\* handleCommand: parseCommand; a parse failure is logged and returned at once
Parse(slot) ==
  /\ Holds(slot)
  /\ reqs[slot].pc = "received"
  /\ IF Parsed(reqs[slot]).success
     THEN StepTo(slot, [reqs[slot] EXCEPT !.pc = "parsed"])
     ELSE StepTo(slot, [reqs[slot] EXCEPT !.pc = "logged", !.code = "PARSE_ERROR"])
  /\ UNCHANGED <<bookings, now, last, hc, roomTable, data, parsed, http>>

\* the handler's reads and checks, the availability check last
CheckCode(r) ==
  CASE r.type = "book" -> BookCheck(bookings, now, Parsed(r))
    [] r.type = "move" -> MoveCheck(bookings, Parsed(r), r.writer)
    [] r.type = "extend" -> ExtendCheck(bookings, Parsed(r), r.writer)
    [] OTHER -> CancelCheck(bookings, Parsed(r), r.writer)

Check(slot) ==
  /\ Holds(slot)
  /\ reqs[slot].pc = "parsed"
  /\ \E c \in {CheckCode(reqs[slot])} :
       IF c = "PASS"
       THEN StepTo(slot, [reqs[slot] EXCEPT !.pc = "checked"])
       ELSE StepTo(slot, [reqs[slot] EXCEPT !.pc = "executed", !.code = c])
  /\ UNCHANGED <<bookings, now, last, hc, roomTable, data, parsed, http>>

\* the handler's write: createBooking, updateBookingTime, updateBookingEndTime
\* or updateBookingStatus
WriteOutcome(r, bookingId) ==
  CASE r.type = "book" -> BookWrite(bookings, Parsed(r), r.writer, bookingId)
    [] r.type = "move" -> MoveWrite(bookings, Parsed(r))
    [] r.type = "extend" -> ExtendWrite(bookings, Parsed(r))
    [] OTHER -> CancelWrite(bookings, Parsed(r))

Write(slot) ==
  /\ Holds(slot)
  /\ reqs[slot].pc = "checked"
  /\ \E id \in generateBookingId(bookings) :
     \E out \in {WriteOutcome(reqs[slot], id)} :
       /\ Len(out.bookings) <= MaxBookings
       /\ bookings' = out.bookings
       /\ StepTo(slot, [reqs[slot] EXCEPT !.pc = "executed", !.code = out.code])
  /\ UNCHANGED <<now, last, hc, roomTable, data, parsed, http>>

\* handleCommand: logCommand writes the audit entry, the response is formatted
Log(slot) ==
  /\ Holds(slot)
  /\ reqs[slot].pc = "executed"
  /\ StepTo(slot, [reqs[slot] EXCEPT !.pc = "logged"])
  /\ UNCHANGED <<bookings, now, last, hc, roomTable, data, parsed, http>>

\* the route callback sends the response: res.json(response)
Respond(slot) ==
  /\ Holds(slot)
  /\ reqs[slot].pc = "logged"
  /\ StepTo(slot, IdleReq)
  /\ UNCHANGED <<bookings, now, last, hc, roomTable, data, parsed, http>>

\* start-time tokens of the requests in flight
ConcStartTokens == { T(0,9,0,0), T(1,0,0,0) }

ConcIds == {BookingIds[1], BookingIds[2]}

\* the payloads of the requests in flight, by command
ConcArgs(type) ==
  CASE type = "book" ->
         { [NoArgs EXCEPT !.roomName = <<"a">>, !.startTime = s, !.duration = n,
                          !.title = tt] :
             s \in ConcStartTokens, n \in Durations, tt \in Titles }
    [] type = "move" ->
         { [NoArgs EXCEPT !.bookingId = id, !.startTime = s] :
             id \in ConcIds, s \in ConcStartTokens }
    [] type = "extend" ->
         { [NoArgs EXCEPT !.bookingId = id, !.additionalMinutes = m] :
             id \in ConcIds, m \in AddMinutes }
    [] OTHER -> { [NoArgs EXCEPT !.bookingId = id] : id \in ConcIds }

NextConc ==
  \/ \E slot \in Slots, type \in {"book", "cancel", "move", "extend"},
        w \in Writers :
       \E a \in ConcArgs(type) : Arrive(slot, type, w, a)
  \/ \E slot \in Slots : Start(slot)
  \/ \E slot \in Slots : Parse(slot)
  \/ \E slot \in Slots : Check(slot)
  \/ \E slot \in Slots : Write(slot)
  \/ \E slot \in Slots : Log(slot)
  \/ \E slot \in Slots : Respond(slot)

SpecConc == Init /\ [][NextConc]_vars

----------------------------------------------------------------------------
(* Commands one at a time while the clock advances, with start times, dates
   and durations on both sides of every limit of the booking policy *)

\* minutes between two readings of the clock
TickMinutes == 30

\* dayjs(): time passes between two commands
Tick ==
  /\ now < DateTime(0, T(0,8,3,0)) + MaxTicks * TickMinutes
  /\ now' = now + TickMinutes
  /\ UNCHANGED <<bookings, last, reqs, running, hc, roomTable, data, parsed, http>>

PolicyWriters == {"u1"}

\* before the booking hours, inside them, and ending after them
PolicyStartTokens == { T(0,7,0,0), T(0,9,0,0), T(2,2,0,0) }

\* today, and an explicit date one day beyond allowedDaysAhead
PolicyDateTokens ==
  { [kind |-> "today"],
    [kind |-> "ymd", day |-> bookingPolicy.allowedDaysAhead + 1] }

\* one minute below the minimum, the minimum, the maximum, one minute above
PolicyDurations ==
  { bookingPolicy.minDurationMinutes - 1, bookingPolicy.minDurationMinutes,
    bookingPolicy.maxDurationMinutes, bookingPolicy.maxDurationMinutes + 1 }

NextPolicy ==
  \/ Tick
  \/ \E w \in PolicyWriters, r \in RoomTokens, d \in PolicyDateTokens,
        s \in PolicyStartTokens, n \in PolicyDurations, tt \in Titles,
        id \in generateBookingId(bookings) :
       Book(w, [roomName |-> r, dateArg |-> d, startTime |-> s, duration |-> n,
                title |-> tt], id)
  \/ \E w \in PolicyWriters, id \in IdSet : Cancel(w, [bookingId |-> id])
  \/ \E w \in PolicyWriters, id \in IdSet, d \in PolicyDateTokens,
        s \in PolicyStartTokens :
       Move(w, [bookingId |-> id, dateArg |-> d, startTime |-> s])
  \/ \E w \in PolicyWriters, id \in IdSet, m \in AddMinutes :
       Extend(w, [bookingId |-> id, additionalMinutes |-> m])

SpecPolicy == Init /\ [][NextPolicy]_vars

----------------------------------------------------------------------------
(* One run of handleCommand at a time, step by step, in which a store
   operation may throw *)

\* the store operation of the run that throws, if any: the handler's first
\* read (before its try block), its availability check or its write (inside
\* its try block), or createAuditLog called by logCommand
Faults == {"none", "read", "check", "write", "audit"}

\* the error code the catch block of each handler returns
CatchCode(type) ==
  CASE type = "book" -> "BOOKING_ERROR"
    [] type = "cancel" -> "CANCEL_ERROR"
    [] type = "move" -> "MOVE_ERROR"
    [] type = "extend" -> "EXTEND_ERROR"

\* messages a failing store call may carry (error.message)
ErrorDetails ==
  { <<<<"S", "Q", "L", "I", "T", "E", "_", "B", "U", "S", "Y", ":", " ", "d", "a", "t", "a", "b", "a", "s", "e", " ", "i", "s", " ", "l", "o", "c", "k", "e", "d">>>>,
    <<<<"U", "N", "I", "Q", "U", "E", " ", "c", "o", "n", "s", "t", "r", "a", "i", "n", "t", " ", "f", "a", "i", "l", "e", "d", ":", " ", "b", "o", "o", "k", "i", "n", "g", "s", ".", "b", "o", "o", "k", "i", "n", "g", "_", "i", "d">>>> }

\* the words of the message each catch block builds
FailureNotice(code) ==
  CASE code = "INTERNAL_ERROR" -> <<<<"[o]", "[ryu]", "[ga]", " ", "[bal]", "[saeng]", "[haess]", "[seup]", "[ni]", "[da]">>>>
    [] code = "BOOKING_ERROR" -> <<<<"[ye]", "[yak]", " ", "[sil]", "[pae]">>>>
    [] code = "CANCEL_ERROR" -> <<<<"[ye]", "[yak]", " ", "[chwi]", "[so]", " ", "[sil]", "[pae]">>>>
    [] code = "MOVE_ERROR" -> <<<<"[ye]", "[yak]", " ", "[byeon]", "[gyeong]", " ", "[sil]", "[pae]">>>>
    [] code = "EXTEND_ERROR" -> <<<<"[ye]", "[yak]", " ", "[yeon]", "[jang]", " ", "[sil]", "[pae]">>>>

\* the message of the result a catch block returns: the template literal
\* with the notice, a colon and error.message
FailureMessage(code, errorMessage) ==
  <<"[x]", " ">> \o FailureNotice(code) \o <<":", " ">> \o errorMessage

\* the result of the switch of handleCommand for run r: a throw of the first
\* read reaches the catch of handleCommand (INTERNAL_ERROR), a throw of the
\* availability check or of the write reaches the catch of the handler
HandlerOutcome(r, bookingId) ==
  LET c == CheckCode(r)
      thrown == \/ r.fault = "check" /\ r.type # "cancel" /\ c \in {"CONFLICT", "PASS"}
                \/ r.fault = "write" /\ c = "PASS"
  IN  IF r.fault = "read" THEN Outcome("INTERNAL_ERROR", bookings)
      ELSE IF thrown THEN Outcome(CatchCode(r.type), bookings)
      ELSE IF c = "PASS" THEN WriteOutcome(r, bookingId)
      ELSE Outcome(c, bookings)

\* logCommand: createAuditLog appends the entry, or throws out of logCommand
\* and out of handleCommand, which calls it outside its try block
logCommand(r) ==
  IF r.fault = "audit" THEN [r EXCEPT !.pc = "rejected"]
  ELSE [r EXCEPT !.pc = "logged", !.audits = @ + 1]

\* handleCommand is called with a command
HcReceive(type, writer, a, fault) ==
  /\ hc.pc = "idle"
  /\ hc' = [ pc |-> "received", type |-> type, writer |-> writer, args |-> a,
             fault |-> fault, code |-> "", audits |-> 0 ]
  /\ UNCHANGED <<bookings, now, last, reqs, running, roomTable, data, parsed, http>>

HcParseUnlogged ==
  /\ hc.pc = "received"
  /\ hc' = IF Parsed(hc).success
           THEN [hc EXCEPT !.pc = "parsed"]
           ELSE [hc EXCEPT !.pc = "logged", !.code = "PARSE_ERROR"]
  /\ UNCHANGED <<bookings, now, last, reqs, running, roomTable, data, parsed, http>>

\* parseCommand: a parse failure goes straight to logCommand
HcParse ==
  /\ hc.pc = "received"
  /\ hc' = IF Parsed(hc).success
           THEN [hc EXCEPT !.pc = "parsed"]
           ELSE [hc EXCEPT !.pc = "handled", !.code = "PARSE_ERROR"]
  /\ UNCHANGED <<bookings, now, last, reqs, running, roomTable, data, parsed, http>>

\* the switch on command.type inside the try block of handleCommand
HcHandle ==
  /\ hc.pc = "parsed"
  /\ \E id \in generateBookingId(bookings) :
     \E out \in {HandlerOutcome(hc, id)} :
       /\ Len(out.bookings) <= MaxBookings
       /\ bookings' = out.bookings
       /\ hc' = [hc EXCEPT !.pc = "handled", !.code = out.code]
  /\ UNCHANGED <<now, last, reqs, running, roomTable, data, parsed, http>>

\* logCommand(payload, command.type, result, startTime)
HcLog ==
  /\ hc.pc = "handled"
  /\ hc' = logCommand(hc)
  /\ UNCHANGED <<bookings, now, last, reqs, running, roomTable, data, parsed, http>>

\* return formatResponse(result): the response carries hc.code
HcReturn ==
  /\ hc.pc = "logged"
  /\ hc' = [hc EXCEPT !.pc = "returned"]
  /\ UNCHANGED <<bookings, now, last, reqs, running, roomTable, data, parsed, http>>

\* the route callback: res.json(response), or res.status(500).json(...) in
\* its catch block when handleCommand rejected
HcRespond ==
  /\ hc.pc \in {"returned", "rejected"}
  /\ hc' = NoRun
  /\ UNCHANGED <<bookings, now, last, reqs, running, roomTable, data, parsed, http>>

\* the commands of the runs: those of ConcArgs, and a book whose duration is
\* below minDurationMinutes
FaultArgs(type) ==
  IF type = "book"
  THEN ConcArgs(type) \cup
         { [NoArgs EXCEPT !.roomName = <<"a">>, !.startTime = T(0,9,0,0), !.duration = 5] }
  ELSE ConcArgs(type)

NextFault ==
  \/ \E type \in {"book", "cancel", "move", "extend"}, w \in Writers, f \in Faults :
       \E a \in FaultArgs(type) : HcReceive(type, w, a, f)
  \/ HcParse
  \/ HcHandle
  \/ HcLog
  \/ HcReturn
  \/ HcRespond

SpecFault == Init /\ [][NextFault]_vars

\* a run of handleCommand that has started is continued: the function holds
\* no await that can stay pending, its store calls being synchronous, and
\* the event loop runs the route callback that awaits it
SpecFaultFair ==
  /\ SpecFault
  /\ WF_vars(HcParse) /\ WF_vars(HcHandle) /\ WF_vars(HcLog)
  /\ WF_vars(HcReturn) /\ WF_vars(HcRespond)

----------------------------------------------------------------------------
(* The parser alone: parseCommand applied to a command text at some instant *)

\* the instants at which texts are parsed: a morning and a late evening
ParseInstants == { DateTime(0, T(0,8,3,0)), DateTime(1, T(2,3,3,0)) }

InitParse ==
  /\ bookings = <<>>
  /\ now \in ParseInstants
  /\ last = NoLast
  /\ reqs = [s \in Slots |-> IdleReq]
  /\ running = 0
  /\ hc = NoRun
  /\ roomTable = rooms
  /\ data = <<>>
  /\ parsed = NoParse
  /\ http = NoHttp

\* parseCommand(payload.data)
ParseText(text) ==
  /\ data' = text
  /\ parsed' = parseCommand(text, now)
  /\ UNCHANGED <<bookings, now, last, reqs, running, hc, roomTable, http>>

NextParse == \E text \in CommandTexts : ParseText(text)

SpecParse == InitParse /\ [][NextParse]_vars

----------------------------------------------------------------------------
(* Commands as texts: handleCommand from payload.data to the store *)

TextWriters == {"u1"}

\* the texts of book commands
PipelineBookTexts ==
  { CommandText(<<<<"b", "o", "o", "k">>, r, <<"t", "o", "d", "a", "y">>, st, <<"6", "0">>, Quoted(<<"x", " ", "y">>)>>) :
      r \in RoomTokens, st \in ValidStartArgs }

\* the texts of cancel, move and extend commands
PipelineTexts ==
  { CommandText(<<<<"c", "a", "n", "c", "e", "l">>, id>>) : id \in IdArgs }
  \cup { CommandText(<<<<"m", "o", "v", "e">>, id, <<"t", "o", "d", "a", "y">>, st>>) :
           id \in IdArgs, st \in ValidStartArgs \cup OtherStartArgs }
  \cup { CommandText(<<<<"e", "x", "t", "e", "n", "d">>, id, <<"6", "0">>>>) : id \in IdArgs }

\* handleCommand: parse payload.data, then the handler of the command type;
\* a text that does not parse is answered PARSE_ERROR and logged as help
HandleText(writer, text, bookingId) ==
  \E p \in {parseCommand(text, now)} :
  \E out \in { IF ~p.success THEN Outcome("PARSE_ERROR", bookings)
                ELSE CASE p.type = "book" ->
                            handleBookCommand(bookings, now, p.args, writer, bookingId)
                       [] p.type = "cancel" ->
                            handleCancelCommand(bookings, p.args, writer)
                       [] p.type = "move" ->
                            handleMoveCommand(bookings, p.args, writer)
                       [] p.type = "extend" ->
                            handleExtendCommand(bookings, p.args, writer)
                       [] OTHER -> Outcome("OK", bookings) } :
    /\ Len(out.bookings) <= MaxBookings
    /\ data' = text
    /\ parsed' = p
    /\ bookings' = out.bookings
    /\ last' = Response(IF p.success THEN p.type ELSE "help", out.code, writer)
    /\ UNCHANGED <<now, reqs, running, hc, roomTable, http>>

\* a book generates an identifier, the other commands none
NextText ==
  \/ \E w \in TextWriters, text \in PipelineBookTexts,
        id \in generateBookingId(bookings) : HandleText(w, text, id)
  \/ \E w \in TextWriters, text \in PipelineTexts : HandleText(w, text, NoId)

SpecText == Init /\ [][NextText]_vars

----------------------------------------------------------------------------
(* Rooms administration: routes/admin.ts POST /admin/rooms and
   PUT /admin/rooms/:id over createRoom and updateRoom *)

\* rows the rooms table may hold
MaxRooms == 4

RoomNames == { <<"a">>, <<"A">>, <<"b">>, <<"c">>, <<"C">> }

RoomEmails == {"a@x", "b@x", "c@x", "d@x"}

\* POST /admin/rooms: 201 with the room, 500 when createRoom throws
PostRoom(name, email) ==
  \E out \in {createRoom(roomTable, [name |-> name, email |-> email])} :
    /\ Cardinality(out.rooms) <= MaxRooms
    /\ roomTable' = out.rooms
    /\ last' = Response("createRoom", IF out.threw THEN "500" ELSE "201", "admin")
    /\ UNCHANGED <<bookings, now, reqs, running, hc, data, parsed, http>>

\* PUT /admin/rooms/:id: 200 with the room, 404 when there is none, 500 when
\* updateRoom throws
PutRoom(id, updates) ==
  \E out \in {updateRoom(roomTable, id, updates)} :
    /\ roomTable' = out.rooms
    /\ last' = Response("updateRoom",
                        IF out.threw THEN "500"
                        ELSE IF getRoomById(id) = {} THEN "404" ELSE "200",
                        "admin")
    /\ UNCHANGED <<bookings, now, reqs, running, hc, data, parsed, http>>

NextRooms ==
  \/ \E name \in RoomNames, email \in RoomEmails : PostRoom(name, email)
  \/ \E id \in 1..MaxRooms, email \in RoomEmails \cup {Undefined} :
       PutRoom(id, [email |-> email])

SpecRooms == Init /\ [][NextRooms]_vars

----------------------------------------------------------------------------
(* Queries: the status and my commands beside book and cancel *)

\* an unpadded morning hour and a padded one
QueryStartTokens == { <<9, COLON, 0, 0>>, T(1,0,0,0) }

\* today, and the seventh day after it
QueryDateTokens == { [kind |-> "today"], [kind |-> "ymd", day |-> 7] }

\* the minutes the process clock may run ahead of UTC: a UTC host and a
\* host on Korean time
UtcOffsets == { 0, 540 }

\* no filter, today, week
MyArgs == { <<>>, <<<<"[o]", "[neul]">>>>, <<<<"W", "E", "E", "K">>>> }

\* no argument, a date, a range, a date with a range, a range whose end is
\* before its start, a range without hours
StatusArgs ==
  { <<>>,
    <<<<"t", "o", "d", "a", "y">>>>,
    <<<<"2", "0", "2", "6", "-", "1", "1", "-", "1", "2">>>>,
    <<<<"0", "9", ":", "0", "0", "-", "1", "8", ":", "0", "0">>>>,
    <<<<"2", "0", "2", "6", "-", "1", "1", "-", "1", "2">>, <<"0", "9", ":", "0", "0", "-", "1", "2", ":", "0", "0">>>>,
    <<<<"1", "8", ":", "0", "0", "-", "0", "9", ":", "0", "0">>>>,
    <<<<"a", ":", "b", "-", "c", ":", "d">>>> }

\* handleCommand for a my command
My(writer, args) ==
  \E p \in {parseMyCommand(args)} :
  \E utcOffset \in UtcOffsets :
  \E res \in {handleMyCommand(bookings, p.args, writer, dateNow(now, utcOffset))} :
    /\ parsed' = p
    /\ last' = Response("my", res.code, writer)
    /\ UNCHANGED <<bookings, now, reqs, running, hc, roomTable, data, http>>

\* handleCommand for a status command
Status(writer, args) ==
  \E p \in {parseStatusCommand(args, now)} :
  \E code \in { IF p.success THEN handleStatusCommand(bookings, roomTable, p.args).code
                 ELSE "PARSE_ERROR" } :
    /\ parsed' = p
    /\ last' = Response(IF p.success THEN "status" ELSE "help", code, writer)
    /\ UNCHANGED <<bookings, now, reqs, running, hc, roomTable, data, http>>

NextQuery ==
  \/ \E w \in Writers, r \in RoomTokens, d \in QueryDateTokens,
        st \in QueryStartTokens, n \in Durations, tt \in Titles,
        id \in generateBookingId(bookings) :
       Book(w, [roomName |-> r, dateArg |-> d, startTime |-> st, duration |-> n,
                title |-> tt], id)
  \/ \E w \in Writers, id \in IdSet : Cancel(w, [bookingId |-> id])
  \/ \E w \in Writers, args \in MyArgs : My(w, args)
  \/ \E w \in TextWriters, args \in StatusArgs : Status(w, args)

SpecQuery == Init /\ [][NextQuery]_vars

----------------------------------------------------------------------------
(* The HTTP routes: /jandi/command, /jandi/test and /admin *)

MaxAuditLogs == 3

\* validateToken: 401 for a missing token, 403 for a wrong one, next()
\* otherwise; the 403 branch logs payload.token.substring(0, 8), which
\* throws for a token that is no string
validateToken(token, outgoingToken) ==
  IF Falsy(token) THEN "401"
  ELSE IF token # JsString(outgoingToken)
  THEN IF token.kind = "string" THEN "403" ELSE "throw"
  ELSE "next"

\* an authentication that compares the keys only
requireAdminAuthKeysOnly(apiKey, adminKey) ==
  IF apiKey # adminKey THEN "401" ELSE "next"

\* requireAdminAuth: 401 unless ADMIN_API_KEY is set and the X-API-Key
\* header equals it
requireAdminAuth(apiKey, adminKey) ==
  IF Falsy(adminKey) \/ apiKey # adminKey THEN "401" ELSE "next"

\* the answer to a request that reached no handler; a throw of a
\* middleware is answered 500 by the error handler of the application
Answer(request, status) ==
  http' = [http EXCEPT !.request = request,
                       !.status = IF status = "throw" THEN "500" ELSE status,
                       !.handled = FALSE]

\* handleCommand(payload), run to its end: the handler of the command, one
\* audit entry, and the response with status 200
RunCommand(request, writer, type, a, bookingId) ==
  /\ http.auditLogs < MaxAuditLogs
  /\ \E out \in { IF type = "book"
                   THEN Handled(parseBookCommand(a, now),
                                handleBookCommand(bookings, now,
                                                  parseBookCommand(a, now),
                                                  writer, bookingId))
                   ELSE handleCancelCommand(bookings, a, writer) } :
       /\ Len(out.bookings) <= MaxBookings
       /\ bookings' = out.bookings
       /\ last' = Response(type, out.code, writer)
       /\ http' = [http EXCEPT !.request = request, !.status = "200",
                                !.handled = TRUE, !.auditLogs = @ + 1]

\* POST /jandi/command: validateToken, then handleCommand
PostJandiCommand(token, writer, type, a, bookingId) ==
  LET request == [route |-> "/jandi/command", token |-> token, apiKey |-> JsUndefined]
      v == validateToken(token, http.outgoingToken)
  IN  /\ IF v = "next"
         THEN RunCommand(request, writer, type, a, bookingId)
         ELSE Answer(request, v) /\ UNCHANGED <<bookings, last>>
      /\ UNCHANGED <<now, reqs, running, hc, roomTable, data, parsed>>

\* POST /jandi/test: 404 unless config.nodeEnv is 'development', else
\* handleCommand with the test payload
PostJandiTest(type, a, bookingId) ==
  LET request == [route |-> "/jandi/test", token |-> JsUndefined, apiKey |-> JsUndefined]
  IN  /\ IF http.nodeEnv # "development"
         THEN Answer(request, "404") /\ UNCHANGED <<bookings, last>>
         ELSE RunCommand(request, "test@example.com", type, a, bookingId)
      /\ UNCHANGED <<now, reqs, running, hc, roomTable, data, parsed>>

\* POST /admin/rooms: requireAdminAuth, 400 without a name, then createRoom
AdminPostRooms(apiKey, name, email) ==
  LET request == [route |-> "POST /admin/rooms", token |-> JsUndefined, apiKey |-> apiKey]
      v == requireAdminAuth(apiKey, http.adminKey)
  IN  /\ IF v # "next" THEN Answer(request, v) /\ UNCHANGED roomTable
         ELSE IF name = <<>> THEN Answer(request, "400") /\ UNCHANGED roomTable
         ELSE \E out \in {createRoom(roomTable, [name |-> name, email |-> email])} :
                /\ Cardinality(out.rooms) <= MaxRooms
                /\ roomTable' = out.rooms
                /\ Answer(request, IF out.threw THEN "500" ELSE "201")
      /\ UNCHANGED <<bookings, now, last, reqs, running, hc, data, parsed>>

\* PUT /admin/rooms/:id: requireAdminAuth, then updateRoom
AdminPutRooms(apiKey, id, updates) ==
  LET request == [route |-> "PUT /admin/rooms/:id", token |-> JsUndefined, apiKey |-> apiKey]
      v == requireAdminAuth(apiKey, http.adminKey)
  IN  /\ IF v # "next" THEN Answer(request, v) /\ UNCHANGED roomTable
         ELSE \E out \in {updateRoom(roomTable, id, updates)} :
                /\ roomTable' = out.rooms
                /\ Answer(request, IF out.threw THEN "500"
                                   ELSE IF getRoomById(id) = {} THEN "404" ELSE "200")
      /\ UNCHANGED <<bookings, now, last, reqs, running, hc, data, parsed>>

\* GET /admin/rooms, /admin/bookings, /admin/bookings/:bookingId,
\* /admin/logs and /admin/stats: requireAdminAuth, then a read
AdminGet(apiKey) ==
  LET request == [route |-> "GET /admin", token |-> JsUndefined, apiKey |-> apiKey]
      v == requireAdminAuth(apiKey, http.adminKey)
  IN  /\ Answer(request, IF v # "next" THEN v ELSE "200")
      /\ UNCHANGED <<bookings, now, last, reqs, running, hc, roomTable, data, parsed>>

\* config.nodeEnv, JANDI_OUTGOING_TOKEN (or ''), ADMIN_API_KEY
NodeEnvs == { "development", "production" }
OutgoingTokens == { "", "tok" }
AdminKeys == { JsUndefined, JsString(""), JsString("key") }

\* payload.token of a request: absent, empty, right, wrong, a number
Tokens == { JsUndefined, JsString(""), JsString("tok"), JsString("bad"), JsNumber("12345") }

\* the X-API-Key header of a request: absent, empty, right, wrong
ApiKeys == { JsUndefined, JsString(""), JsString("key"), JsString("bad") }

HttpBookArgs ==
  [ roomName |-> <<"a">>, dateArg |-> [kind |-> "today"], startTime |-> T(0,9,0,0),
    duration |-> 60, title |-> <<"s", "y", "n", "c">> ]

InitHttp ==
  /\ bookings = <<>>
  /\ now = DateTime(0, T(0,8,3,0))
  /\ last = NoLast
  /\ reqs = [s \in Slots |-> IdleReq]
  /\ running = 0
  /\ hc = NoRun
  /\ roomTable = rooms
  /\ data = <<>>
  /\ parsed = NoParse
  /\ http \in { [NoHttp EXCEPT !.nodeEnv = e, !.outgoingToken = t, !.adminKey = k] :
                   e \in NodeEnvs, t \in OutgoingTokens, k \in AdminKeys }

NextHttp ==
  \/ \E token \in Tokens, w \in TextWriters, id \in generateBookingId(bookings) :
       PostJandiCommand(token, w, "book", HttpBookArgs, id)
  \/ \E token \in Tokens, w \in TextWriters, id \in IdSet :
       PostJandiCommand(token, w, "cancel", [bookingId |-> id], NoId)
  \/ \E id \in generateBookingId(bookings) : PostJandiTest("book", HttpBookArgs, id)
  \/ \E apiKey \in ApiKeys : AdminPostRooms(apiKey, <<"c">>, "c@x")
  \/ \E apiKey \in ApiKeys : AdminPutRooms(apiKey, 1, [email |-> "d@x"])
  \/ \E apiKey \in ApiKeys : AdminGet(apiKey)

SpecHttp == InitHttp /\ [][NextHttp]_vars

----------------------------------------------------------------------------
(* Properties *)

Rows == 1..Len(bookings)

Active(i) == bookings[i].status = "active"

\* the clock interval of a window: start minute and start minute + duration
Overlap(s1, e1, s2, e2) == s1 < e2 /\ s2 < e1

StartMin(row) == timeToMinutes(row.startTime)
EndMin(row) == timeToMinutes(row.endTime)
SpanEnd(row) == timeToMinutes(row.startTime) + row.durationMinutes

\* the book commands the parser accepts
BookInputs ==
  { [roomName |-> r, dateArg |-> d, startTime |-> s, duration |-> n,
     title |-> tt] :
      r \in RoomTokens, d \in DateTokens, s \in StartTokens, n \in Durations,
      tt \in Titles }

\* C1: any two distinct active bookings of one room and date have
\* non-overlapping intervals: never a.start < b.end and b.start < a.end
C1_NoActiveOverlap ==
  \A i \in Rows, j \in Rows :
    ( /\ i # j /\ Active(i) /\ Active(j)
      /\ bookings[i].roomId = bookings[j].roomId
      /\ bookings[i].date = bookings[j].date )
    => ~Overlap(StartMin(bookings[i]), EndMin(bookings[i]),
                StartMin(bookings[j]), EndMin(bookings[j]))

\* C3: every stored booking ends strictly after it starts on its own date:
\* its start plus its duration does not pass midnight
C3_EndAfterStart ==
  \A i \in Rows :
    /\ StartMin(bookings[i]) < EndMin(bookings[i])
    /\ SpanEnd(bookings[i]) < MinutesPerDay

\* C2: while a request is between its availability check and its write, no
\* other request runs a handler step (others only arrive and wait), so the
\* table is next changed by that request's own write
C2_CheckThenWrite ==
  [][ \A s \in Slots :
        reqs[s].pc = "checked" =>
          /\ reqs'[s].pc \in {"checked", "executed"}
          /\ bookings' # bookings => reqs'[s].pc = "executed"
          /\ \A t \in Slots \ {s} :
               /\ reqs[t].pc \in {"idle", "arrived"}
               /\ reqs'[t].pc \in {"idle", "arrived"}
    ]_vars

\* C2, its case: a book request is between check and write while another
\* book request for the same start has arrived
C2_Witness ==
  \E s \in Slots, t \in Slots :
    /\ s # t
    /\ reqs[s].pc = "checked" /\ reqs[s].type = "book"
    /\ reqs[t].pc = "arrived" /\ reqs[t].type = "book"
    /\ reqs[t].args.startTime = reqs[s].args.startTime

\* the active rows of a room and date whose clock interval overlaps the
\* clock interval from minute s lasting n minutes, other than row `except`
ClockConflicts(roomId, date, s, n, except) ==
  { i \in Rows \ {except} :
      /\ Active(i)
      /\ bookings[i].roomId = roomId /\ bookings[i].date = date
      /\ Overlap(StartMin(bookings[i]), SpanEnd(bookings[i]), s, s + n) }

\* C4: a book that passes the other checks is rejected with CONFLICT exactly
\* when its interval strictly overlaps an active booking of the room and date
\* (touching intervals are accepted), for every accepted start-time spelling
C4_BookDecision ==
  \A a \in BookInputs :
    LET p == parseBookCommand(a, now)
        c == BookCheck(bookings, now, p)
        room == CHOOSE r \in getRoomByName(p.roomName) : TRUE
    IN  (p.success /\ c \in {"PASS", "CONFLICT"}) =>
          ( c = "CONFLICT" <=>
              ClockConflicts(room.id, p.date, timeToMinutes(p.startTime),
                             p.duration, 0) # {} )

\* candidate windows the handlers pass to checkRoomAvailability
Windows ==
  { <<s, FormatHHmm(timeToMinutes(s) + n)>> :
      s \in StartTokens, n \in Durations \cup AddMinutes }

\* the two-comparison reference: a row conflicts when
\* row.start < window.end and row.end > window.start
ReferenceAvailable(bk, roomId, date, startTime, endTime, excludeBookingId) ==
  ~ \E i \in 1..Len(bk) :
      /\ bk[i].roomId = roomId /\ bk[i].date = date /\ bk[i].status = "active"
      /\ (excludeBookingId # NoId => bk[i].bookingId # excludeBookingId)
      /\ TextLess(bk[i].startTime, endTime) /\ TextLess(startTime, bk[i].endTime)

\* C5: the three-clause condition of checkRoomAvailability answers as the
\* two-comparison reference for every stored row and candidate window
C5_ThreeClauseIsReference ==
  \A w \in Windows, r \in rooms, x \in IdSet \cup {NoId} :
    \A d \in {parseKoreanDate(tok, now) : tok \in DateTokens} :
      checkRoomAvailability(bookings, r.id, d, w[1], w[2], x)
        = ReferenceAvailable(bookings, r.id, d, w[1], w[2], x)

\* C6: a move by the owner whose new interval overlaps another active booking
\* of the room on the new date returns CONFLICT and leaves every row as it was
C6_MoveConflict ==
  \A i \in Rows, tok \in DateTokens, s \in StartTokens :
    LET p == parseMoveCommand([bookingId |-> bookings[i].bookingId,
                               dateArg |-> tok, startTime |-> s], now)
    IN  ClockConflicts(bookings[i].roomId, p.date, timeToMinutes(s),
                       bookings[i].durationMinutes, i) # {}
          => handleMoveCommand(bookings, p, bookings[i].requestedBy)
               = Outcome("CONFLICT", bookings)

\* C7: an extend by the owner of a stored booking is rejected with
\* MAX_DURATION exactly when durationMinutes + additionalMinutes exceeds
\* maxDurationMinutes (a total equal to the maximum is allowed), and an extend
\* that is rejected, whoever sent it, leaves every row as it was
C7_ExtendMaxDuration ==
  \A i \in Rows, add \in AddMinutes, w \in Writers :
    LET p == parseExtendCommand([bookingId |-> bookings[i].bookingId,
                                 additionalMinutes |-> add])
        out == handleExtendCommand(bookings, p, w)
    IN  /\ p.success
        /\ w = bookings[i].requestedBy =>
             ( out.code = "MAX_DURATION" <=>
                 bookings[i].durationMinutes + add
                   > bookingPolicy.maxDurationMinutes )
        /\ out.code # "OK" => out.bookings = bookings

\* C7, its case: a booking was extended to exactly the maximum, and the
\* last command, a further extend, was rejected with MAX_DURATION
C7_Witness ==
  /\ last.type = "extend" /\ last.code = "MAX_DURATION"
  /\ \E i \in Rows :
       /\ bookings[i].durationMinutes = bookingPolicy.maxDurationMinutes
       /\ bookings[i].requestedBy = last.writer

\* the book command that asks again for the window of a stored row
SameWindow(row) ==
  [ success |-> TRUE,
    roomName |-> (CHOOSE r \in getRoomById(row.roomId) : TRUE).name,
    date |-> row.date, startTime |-> row.startTime,
    duration |-> row.durationMinutes, title |-> row.title ]

\* a book by the row's requester for the row's window, given identifier id,
\* succeeds and appends a new active booking
RebookSucceeds(bk, row, id) ==
  LET out == handleBookCommand(bk, now, SameWindow(row), row.requestedBy, id)
  IN  /\ out.code = "OK"
      /\ Len(out.bookings) = Len(bk) + 1
      /\ out.bookings[Len(bk) + 1].status = "active"
      /\ out.bookings[Len(bk) + 1].bookingId = id

\* the table without its rows that are not active
ActiveOnly(bk) == SelectSeq(bk, LAMBDA row : row.status = "active")

\* rows that are not active block no window
CancelledBlocksNothing ==
  \A w \in Windows, r \in rooms :
    \A d \in {parseKoreanDate(tok, now) : tok \in DateTokens} :
      checkRoomAvailability(bookings, r.id, d, w[1], w[2], NoId)
        = checkRoomAvailability(ActiveOnly(bookings), r.id, d, w[1], w[2], NoId)

\* the step cancels the booking that the command before it has created
CancelOfLastBook ==
  /\ last.type = "book" /\ last.code = "OK"
  /\ last'.type = "cancel" /\ last'.code = "OK"
  /\ Len(bookings) > 0 /\ Len(bookings') = Len(bookings)
  /\ bookings[Len(bookings)].status = "active"
  /\ bookings'[Len(bookings)].status = "cancelled"
  /\ DateTime(bookings[Len(bookings)].date, bookings[Len(bookings)].startTime) >= now

C9_CancelByOther ==
  \A i \in Rows, w \in Writers :
    w # bookings[i].requestedBy =>
      handleCancelCommand(bookings, [bookingId |-> bookings[i].bookingId], w)
        = Outcome("UNAUTHORIZED", bookings)

\* a move or an extend of a stored booking by another requester returns
\* UNAUTHORIZED and leaves every row as it was
OtherRequesterRefused ==
  \A i \in Rows, w \in Writers :
    w # bookings[i].requestedBy =>
      /\ \A tok \in DateTokens, s \in StartTokens :
           handleMoveCommand(bookings,
               parseMoveCommand([bookingId |-> bookings[i].bookingId,
                                 dateArg |-> tok, startTime |-> s], now), w)
             = Outcome("UNAUTHORIZED", bookings)
      /\ \A add \in AddMinutes :
           handleExtendCommand(bookings,
               parseExtendCommand([bookingId |-> bookings[i].bookingId,
                                   additionalMinutes |-> add]), w)
             = Outcome("UNAUTHORIZED", bookings)

\* the step changes the status or a time field of a stored row only as a
\* successful cancel, move or extend sent by the row's requestedBy
OnlyOwnerChanges ==
  /\ Len(bookings') >= Len(bookings)
  /\ \A i \in Rows :
       /\ bookings'[i].bookingId = bookings[i].bookingId
       /\ bookings'[i].requestedBy = bookings[i].requestedBy
       /\ bookings'[i].roomId = bookings[i].roomId
       /\ bookings'[i] # bookings[i] =>
            /\ last'.type \in {"cancel", "move", "extend"}
            /\ last'.code = "OK"
            /\ last'.writer = bookings[i].requestedBy

\* C10: the status and the time fields of a booking are changed only by a
\* command of its requestedBy; a move or extend by anyone else returns
\* UNAUTHORIZED, not BOOKING_NOT_FOUND, and changes nothing
C10_OwnerOnly ==
  /\ []OtherRequesterRefused
  /\ [][OnlyOwnerChanges]_vars

\* C10, its case: a booking of one requester is stored and the last command,
\* a move or extend sent by the other requester, was refused
C10_Witness ==
  /\ last.type \in {"move", "extend"} /\ last.code = "UNAUTHORIZED"
  /\ \E i \in Rows : bookings[i].requestedBy # last.writer

C12_NeverRejects ==
  /\ hc.pc # "rejected"
  /\ (hc.pc = "returned" /\ hc.fault \in {"read", "audit"}) => hc.code \notin {"", "OK"}

\* the result codes of a failure at parsing or at a policy check
PolicyFailures == {"PARSE_ERROR", "PAST_TIME", "OUTSIDE_HOURS", "MAX_DURATION"}

\* C13: a command that fails at parsing or at a policy check (past start,
\* outside booking hours, duration out of bounds, extend above the maximum)
\* leaves the bookings table exactly as it was
C13_FailureFrame ==
  [][ last'.code \in PolicyFailures => bookings' = bookings ]_vars

\* C13, its case: bookings are stored and the last command, a book with a
\* start in the past, was rejected
C13_Witness ==
  /\ last.type = "book" /\ last.code = "PAST_TIME"
  /\ Len(bookings) > 0

\* the only change the step makes to the status of a stored row is from
\* active to cancelled or completed
StatusOnlyLeavesActive ==
  \A i \in Rows :
    (i <= Len(bookings') /\ bookings'[i].status # bookings[i].status) =>
      /\ bookings[i].status = "active"
      /\ bookings'[i].status \in {"cancelled", "completed"}

\* a cancel by the owner of a booking that is not active fails with
\* INVALID_STATUS and leaves every row as it was
OwnerCancelOfInactive ==
  \A i \in Rows :
    bookings[i].status # "active" =>
      handleCancelCommand(bookings, [bookingId |-> bookings[i].bookingId],
                          bookings[i].requestedBy)
        = Outcome("INVALID_STATUS", bookings)

\* C14: the status of a booking only ever changes from active to cancelled
\* (or completed), and a cancel by the owner of a booking that is not active
\* fails with INVALID_STATUS and changes nothing
C14_StatusTransitions ==
  /\ []OwnerCancelOfInactive
  /\ [][StatusOnlyLeavesActive]_vars

\* C14, its case: the owner's cancel of an already cancelled booking was
\* refused with INVALID_STATUS
C14_Witness ==
  /\ last.type = "cancel" /\ last.code = "INVALID_STATUS"
  /\ \E i \in Rows :
       bookings[i].status = "cancelled" /\ bookings[i].requestedBy = last.writer

\* C15: every booking has durationMinutes = end time - start time in minutes
C15_DurationIsEndMinusStart ==
  \A i \in Rows :
    bookings[i].durationMinutes = EndMin(bookings[i]) - StartMin(bookings[i])

\* C16: a book with valid date and start is rejected by the parser exactly
\* when its duration is below minDurationMinutes or above maxDurationMinutes
\* (the bounds themselves are accepted), and the durationMinutes of every
\* stored booking lies between the two bounds, also after extends
C16_DurationBounds ==
  /\ \A r \in RoomTokens, d \in PolicyDateTokens, s \in PolicyStartTokens,
        n \in PolicyDurations, tt \in Titles :
       parseBookCommand([roomName |-> r, dateArg |-> d, startTime |-> s,
                         duration |-> n, title |-> tt], now).success
         <=> ( /\ n >= bookingPolicy.minDurationMinutes
               /\ n <= bookingPolicy.maxDurationMinutes )
  /\ \A i \in Rows :
       /\ bookings[i].durationMinutes >= bookingPolicy.minDurationMinutes
       /\ bookings[i].durationMinutes <= bookingPolicy.maxDurationMinutes

\* C16, its case: a booking of the minimum duration was extended, a booking
\* of the maximum duration is stored, and the last command, a book with a
\* duration outside the bounds, was rejected by the parser
C16_Witness ==
  /\ last.type = "book" /\ last.code = "PARSE_ERROR"
  /\ \E i \in Rows, m \in AddMinutes :
       bookings[i].durationMinutes = bookingPolicy.minDurationMinutes + m
  /\ \E i \in Rows :
       bookings[i].durationMinutes = bookingPolicy.maxDurationMinutes

\* the book commands of the policy inputs
PolicyBookInputs ==
  { [roomName |-> r, dateArg |-> d, startTime |-> s, duration |-> n,
     title |-> tt] :
      r \in RoomTokens, d \in PolicyDateTokens, s \in PolicyStartTokens,
      n \in PolicyDurations, tt \in Titles }

\* a book whose start is strictly before the current instant is rejected with
\* PAST_TIME and changes nothing; a start equal to the current instant is not
\* rejected by this rule
BookPastRule ==
  \A a \in PolicyBookInputs, w \in PolicyWriters, id \in generateBookingId(bookings) :
    LET p == parseBookCommand(a, now)
    IN  p.success =>
          /\ DateTime(p.date, p.startTime) < now =>
               handleBookCommand(bookings, now, p, w, id)
                 = Outcome("PAST_TIME", bookings)
          /\ DateTime(p.date, p.startTime) = now =>
               BookCheck(bookings, now, p) # "PAST_TIME"

\* the rows of the table after the step that the step has created or whose
\* date or start it has changed
Placed ==
  { i \in 1..Len(bookings') :
      \/ i > Len(bookings)
      \/ bookings'[i].date # bookings[i].date
      \/ bookings'[i].startTime # bookings[i].startTime }

\* C17: a book or move whose start is strictly before the current instant is
\* rejected and changes nothing (a start equal to the current instant is not
\* rejected), so no command gives an active booking a start that is already
\* in the past when the command is processed
C17_NoPastStart ==
  /\ []BookPastRule
  /\ [][ \A i \in Placed :
           bookings'[i].status = "active" =>
             DateTime(bookings'[i].date, bookings'[i].startTime) >= now ]_vars

\* C18: every active booking has a start hour not below the hour of
\* bookingHoursStart and an end hour not above the hour of bookingHoursEnd
C18_WithinBookingHours ==
  \A i \in Rows :
    Active(i) =>
      /\ HourOf(bookings[i].startTime) >= policyStartHour
      /\ HourOf(bookings[i].endTime) <= policyEndHour

\* C19: no book or move gives a booking a date more than allowedDaysAhead
\* days after the current date
C19_DaysAhead ==
  [][ \A i \in Placed :
        bookings'[i].date - (now \div MinutesPerDay)
          <= bookingPolicy.allowedDaysAhead ]_vars

\* C20: a move by the owner to a window that overlaps no other active booking
\* of the room on the new date succeeds, also when it overlaps the booking's
\* own window, and rewrites date, start and end = start + duration only
C20_MoveSucceeds ==
  \A i \in Rows, tok \in DateTokens, s \in StartTokens :
    LET row == bookings[i]
        p == parseMoveCommand([bookingId |-> row.bookingId, dateArg |-> tok,
                               startTime |-> s], now)
        moved == [row EXCEPT !.date = p.date, !.startTime = s,
                    !.endTime = FormatHHmm(DateTime(p.date, s) + row.durationMinutes)]
    IN  ClockConflicts(row.roomId, p.date, timeToMinutes(s),
                       row.durationMinutes, i) = {}
          => handleMoveCommand(bookings, p, row.requestedBy)
               = Outcome("OK", [bookings EXCEPT ![i] = moved])

\* C21: for every active booking and additional-minutes value, the
\* availability decision of extend on the delta window [old end, new end)
\* equals the decision on the whole new interval [start, new end), both
\* excluding the booking itself; a successful extend by the owner changes only
\* the end (old end + additional) and the duration (old + additional)
C21_DeltaIsWhole ==
  \A i \in Rows, add \in AddMinutes :
    LET row == bookings[i]
        newEndTime == FormatHHmm(DateTime(row.date, row.endTime) + add)
        p == parseExtendCommand([bookingId |-> row.bookingId,
                                 additionalMinutes |-> add])
        out == handleExtendCommand(bookings, p, row.requestedBy)
    IN  Active(i) =>
          /\ checkRoomAvailability(bookings, row.roomId, row.date, row.endTime,
                                   newEndTime, row.bookingId)
               = checkRoomAvailability(bookings, row.roomId, row.date,
                                       row.startTime, newEndTime, row.bookingId)
          /\ out.code = "OK" =>
               out.bookings = [bookings EXCEPT ![i] =
                 [row EXCEPT !.endTime = newEndTime,
                             !.durationMinutes = row.durationMinutes + add]]

\* the identifiers stored in a bookings table
StoredIds(bk) == { bk[i].bookingId : i \in 1..Len(bk) }

\* C22: bookings are never removed: the set of stored identifiers grows by
\* exactly one on each successful book and by zero on every other command, and
\* no command changes the bookingId, room, title or requester of a stored row
C22_RowsOnlyGrow ==
  [][ /\ Len(bookings') >= Len(bookings)
      /\ StoredIds(bookings) \subseteq StoredIds(bookings')
      /\ \A i \in Rows :
            /\ bookings'[i].bookingId = bookings[i].bookingId
            /\ bookings'[i].roomId = bookings[i].roomId
            /\ bookings'[i].title = bookings[i].title
            /\ bookings'[i].requestedBy = bookings[i].requestedBy
      /\ IF last'.type = "book" /\ last'.code = "OK"
         THEN /\ Len(bookings') = Len(bookings) + 1
              /\ Cardinality(StoredIds(bookings')) =
                   Cardinality(StoredIds(bookings)) + 1
         ELSE /\ Len(bookings') = Len(bookings)
              /\ StoredIds(bookings') = StoredIds(bookings) ]_vars

\* a cancel, a move and an extend have each succeeded on a table of two rows
C22_Witness ==
  /\ Len(bookings) = MaxBookings
  /\ last.type = "extend" /\ last.code = "OK"
  /\ \E i \in Rows : bookings[i].status = "cancelled"
  /\ \E i \in Rows : bookings[i].startTime # bookings[i].endTime
                        /\ bookings[i].durationMinutes > 60

\* C23: booking identifiers are pairwise distinct in every reachable state,
\* also when books are processed at one clock value, and a book whose
\* generated identifier is already stored fails and leaves the store unchanged
C23_DistinctIds ==
  /\ \A i, j \in Rows : i # j => bookings[i].bookingId # bookings[j].bookingId
  /\ \A w \in Writers, a \in BookInputs, id \in StoredIds(bookings) :
       LET out == Handled(parseBookCommand(a, now),
                          handleBookCommand(bookings, now, parseBookCommand(a, now),
                                            w, id))
       IN  out.code # "OK" /\ out.bookings = bookings

\* a book at the clock value of a stored booking, for a free window, has
\* failed on the identifier while two bookings are stored
C23_Witness ==
  /\ Len(bookings) = MaxBookings
  /\ last.type = "book" /\ last.code = "BOOKING_ERROR"

\* C24: after any sequence of createRoom and updateRoom calls no two rooms
\* have short codes that are equal ignoring letter case and no two rooms share
\* an email, so getRoomByName never matches more than one room
C24_RoomCodesUnique ==
  /\ \A r, q \in roomTable :
       r # q => LOWER(r.name) # LOWER(q.name) /\ r.email # q.email
  /\ \A name \in RoomNames : Cardinality(getRoomByName(name)) <= 1

\* the date a date argument stands for at instant t
ResolvedDate(d, t) ==
  CASE d \in TodayArgs -> t \div MinutesPerDay
    [] d \in TomorrowArgs -> t \div MinutesPerDay + 1
    [] d = <<"2", "0", "2", "6", "-", "1", "1", "-", "0", "6">> -> 1
    [] d = <<"2", "0", "2", "6", "-", "1", "1", "-", "0", "4">> -> 0 - 1
    [] d = <<"2", "0", "2", "8", "-", "0", "2", "-", "2", "9">> -> 481

\* the valid date arguments
GoodDateArgs == TodayArgs \cup TomorrowArgs \cup ValidDateArgs

\* quoted titles that contain a space
SpacedTitles == { tt \in QuotedTitles : includes(tt, " ") }

\* the text parsed last is book <r> <d> <st> <du> "<tt>" and the result is a
\* book intent with these values and the given title
BookParsesTo(r, d, st, du, tt, title) ==
  data = CommandText(<<<<"b", "o", "o", "k">>, r, d, st, du, Quoted(tt)>>) =>
    /\ parsed.success
    /\ parsed.type = "book"
    /\ parsed.args.roomName = r
    /\ parsed.args.date = ResolvedDate(d, now)
    /\ parsed.args.startTime = ClockCodes(st)
    /\ parsed.args.duration = DigitsValue(du)
    /\ parsed.args.title = title

\* C25 as stated: for every room token, valid date token, valid start,
\* in-bounds duration and quoted title containing spaces, the book command
\* parses to a book intent with these values whose title is the quoted text
\* with the quote characters removed
C25_TitleIsQuotedText ==
  \A r \in RoomTokens, d \in GoodDateArgs, st \in ValidStartArgs,
     du \in ValidDurationArgs, tt \in SpacedTitles :
    BookParsesTo(r, d, st, du, tt, tt)

\* C25 (amended): ... the title is the quoted text with the quote characters
\* removed and the white space around it trimmed, or the placeholder title
\* when nothing remains
C25_TitleIsTrimmedText ==
  \A r \in RoomTokens, d \in GoodDateArgs, st \in ValidStartArgs,
     du \in ValidDurationArgs, tt \in SpacedTitles :
    BookParsesTo(r, d, st, du, tt,
                 IF trim(tt) = <<>> THEN Placeholder ELSE trim(tt))

\* a book whose quoted title has spaces inside and around it was parsed, and
\* the title kept the inner spaces only
C25_Witness ==
  /\ data = CommandText(<<<<"b", "o", "o", "k">>, <<"a">>, <<"t", "o", "d", "a", "y">>, <<"9", ":", "3", "0">>, <<"6", "0">>, Quoted(<<" ", "x", " ", "y", " ">>)>>)
  /\ parsed.success
  /\ parsed.args.title = <<"x", " ", "y">>

\* C26: a book command with a valid room, date, start and duration and an
\* empty title (no title token, or an empty quoted string) parses to a book
\* intent carrying the placeholder title
C26_EmptyTitlePlaceholder ==
  \A r \in RoomTokens, d \in GoodDateArgs, st \in ValidStartArgs,
     du \in ValidDurationArgs :
    ( \/ data = CommandText(<<<<"b", "o", "o", "k">>, r, d, st, du>>)
      \/ data = CommandText(<<<<"b", "o", "o", "k">>, r, d, st, du, Quoted(<<>>)>>) ) =>
      /\ parsed.success
      /\ parsed.type = "book"
      /\ parsed.args.title = Placeholder

\* the result of the parser of an intent for the arguments after the word
IntentResult(type, args, t) ==
  CASE type = "help" -> Command("help", [raw |-> trim(data)])
    [] type = "status" -> parseStatusCommand(args, t)
    [] type = "book" -> parseBookArgs(args, t)
    [] type = "cancel" -> parseCancelCommand(args)
    [] type = "move" -> parseMoveArgs(args, t)
    [] type = "extend" -> parseExtendArgs(args)
    [] type = "my" -> parseMyCommand(args)
    [] type = "list" -> parseListCommand(args, t)

\* C27: parseCommand returns a result for every input: empty or blank input
\* gives the help intent, a first token found in the synonym table in any
\* letter case gives the result of that intent's parser, and any other first
\* token, or no token at all, gives a parse failure
C27_ParseTotal ==
  parsed # NoParse =>
    /\ parsed.success \in BOOLEAN
    /\ data \in BlankTexts => parsed = Command("help", [raw |-> <<>>])
    /\ data \in WordlessTexts => parsed = Failure
    /\ \A w \in NoKeyWords, rest \in RestWords :
         data = CommandText(<<w>> \o rest) => parsed = Failure
    /\ \A e \in commandMap, rest \in RestWords : \A w \in Spellings(e[1]) :
         data = CommandText(<<w>> \o rest) =>
           /\ parsed = IntentResult(e[2], rest, now)
           /\ parsed.success => parsed.type = e[2]

\* a command word typed in upper case was parsed to its intent
C27_Witness ==
  /\ data = CommandText(<< <<"L", "I", "S", "T">>, <<"t", "o", "d", "a", "y">> >>)
  /\ parsed.success /\ parsed.type = "list" /\ parsed.args.target = "bookings"

\* C28: a status command carrying a date token of any form followed by a
\* time-range token parses to a status intent with the resolved date and the
\* time range both set; with only a time-range token it gets the current
\* date and that time range
C28_StatusDateAndRange ==
  /\ \A d \in GoodDateArgs, tr \in TimeRangeArgs :
       data = CommandText(<<<<"s", "t", "a", "t", "u", "s">>, d, tr>>) =>
         /\ parsed.success
         /\ parsed.type = "status"
         /\ parsed.args.date = ResolvedDate(d, now)
         /\ "timeRange" \in DOMAIN parsed.args
         /\ parsed.args.timeRange = tr
  /\ \A tr \in TimeRangeArgs :
       data = CommandText(<<<<"s", "t", "a", "t", "u", "s">>, tr>>) =>
         /\ parsed.success
         /\ parsed.type = "status"
         /\ parsed.args = [date |-> now \div MinutesPerDay, timeRange |-> tr]

\* the four commands that take the date argument d, other arguments valid
StatusOf(d) == CommandText(<<<<"s", "t", "a", "t", "u", "s">>, d>>)

BookOf(d) == CommandText(<<<<"b", "o", "o", "k">>, <<"a">>, d, <<"0", "9", ":", "0", "0">>, <<"6", "0">>, Quoted(<<"x", " ", "y">>)>>)

MoveOf(d) == CommandText(<<<<"m", "o", "v", "e">>, toLowerCase(BookingIds[1]), d, <<"0", "9", ":", "0", "0">>>>)

ListOf(d) == CommandText(<<<<"l", "i", "s", "t">>, d>>)

\* the result carries the date d stands for now
DateResolved(d) == parsed.success /\ parsed.args.date = ResolvedDate(d, now)

\* arguments status reads as a time range, and arguments list reads as its
\* rooms target
RangeArgs == TimeRangeArgs

RoomsArgs == { <<"r", "o", "o", "m", "s">>, <<"R", "o", "o", "m", "s">>, <<"[hoe]", "[ui]", "[sil]">> }

\* C29 as stated: a date token resolves to the same date, or is rejected,
\* identically in status, book, move and list: the today words give the
\* current date, the tomorrow words the next day, a valid YYYY-MM-DD itself,
\* and anything else is a parse failure in all four
C29_SameDateEverywhere ==
  \A d \in DateArgs :
    data \in {StatusOf(d), BookOf(d), MoveOf(d), ListOf(d)} =>
      IF d \in GoodDateArgs THEN DateResolved(d) ELSE parsed = Failure

\* C29 (amended): ... anything else is a parse failure in all four, except
\* that status reads a token holding both '-' and ':' as a time range of the
\* current date, and list reads the rooms keywords as its rooms target
C29_SameDateButKeywords ==
  \A d \in DateArgs :
    data \in {StatusOf(d), BookOf(d), MoveOf(d), ListOf(d)} =>
      IF d \in GoodDateArgs THEN DateResolved(d)
      ELSE IF data = StatusOf(d) /\ d \in RangeArgs
      THEN parsed = Command("status", [date |-> now \div MinutesPerDay,
                                       timeRange |-> d])
      ELSE IF data = ListOf(d) /\ d \in RoomsArgs
      THEN parsed = Command("list", [target |-> "rooms"])
      ELSE parsed = Failure

\* late in the evening of day 1 a move with the tomorrow word in capitals
\* was parsed to day 2
C29_Witness ==
  /\ data = MoveOf(<<"T", "O", "M", "O", "R", "R", "O", "W">>)
  /\ now = DateTime(1, T(2,3,3,0))
  /\ parsed.success
  /\ parsed.args.date = 2

\* an identifier as it may be typed: as stored, lower-cased, and with a
\* lower-cased tail
CaseMixes(id) ==
  { id, toLowerCase(id), SubSeq(id, 1, 5) \o toLowerCase(SubSeq(id, 6, Len(id))) }

\* the text parsed last is a cancel, move or extend naming the typed identifier
NamesId(typed) ==
  \/ data = CommandText(<<<<"c", "a", "n", "c", "e", "l">>, typed>>)
  \/ \E st \in ValidStartArgs : data = CommandText(<<<<"m", "o", "v", "e">>, typed, <<"t", "o", "d", "a", "y">>, st>>)
  \/ data = CommandText(<<<<"e", "x", "t", "e", "n", "d">>, typed, <<"6", "0">>>>)

\* C30: for every booking created by book with identifier X, a later cancel,
\* move or extend that gives X in any mix of upper and lower case resolves to
\* that booking: the parser's upper-casing of the typed identifier equals the
\* stored identifier that generateBookingId produced
C30_TypedIdResolves ==
  \A i \in Rows : \A typed \in CaseMixes(bookings[i].bookingId) :
    /\ getBookingById(bookings, toUpperCase(typed)) = i
    /\ NamesId(typed) =>
         /\ parsed.success
         /\ parsed.args.bookingId = bookings[i].bookingId
         /\ last.code # "BOOKING_NOT_FOUND"

\* a booking made by a book text was cancelled by a cancel text that names
\* its identifier in lower case
C30_Witness ==
  \E i \in Rows :
    /\ data = CommandText(<<<<"c", "a", "n", "c", "e", "l">>, toLowerCase(bookings[i].bookingId)>>)
    /\ toLowerCase(bookings[i].bookingId) # bookings[i].bookingId
    /\ last = Response("cancel", "OK", "u1")
    /\ bookings[i].status = "cancelled"

----------------------------------------------------------------------------
(* Queries *)

\* the dates and rooms a query may name
QueryDates == { now \div MinutesPerDay, now \div MinutesPerDay + 1 }
QueryRooms == { <<r.id>> : r \in rooms } \cup { <<>> }

\* the rows of a result, as a set
RowsOf(res) == { res[i] : i \in 1..Len(res) }

\* C31: getBookingsByDate(date, room?) returns exactly the active bookings of
\* that date (and that room, when one is given), no cancelled booking, in
\* ascending order of their start times as clock times
C31_ActiveByDateInClockOrder ==
  \A date \in QueryDates, roomId \in QueryRooms :
    LET res == getBookingsByDate(bookings, date, roomId)
    IN  /\ RowsOf(res) = { bookings[i] : i \in { j \in Rows :
                              /\ bookings[j].date = date
                              /\ Active(j)
                              /\ (roomId # <<>> => bookings[j].roomId = roomId[1]) } }
        /\ \A i, j \in 1..Len(res) :
              i < j => StartMin(res[i]) <= StartMin(res[j])

\* the day the process clock shows
Today == now \div MinutesPerDay

\* C32: getBookingsByUser(requester, filter) returns exactly the active
\* bookings of the requester, never another requester's: those dated today
\* with filter today, those dated within the seven days starting today with
\* filter week, all of them with filter all
C32_OwnBookingsByFilter ==
  last.type = "my" =>
    \A utcOffset \in UtcOffsets :
      LET res == handleMyCommand(bookings, parsed.args, last.writer,
                                 dateNow(now, utcOffset)).bookings
          filter == parsed.args.filter
      IN  RowsOf(res) =
            { bookings[i] : i \in { j \in Rows :
                /\ Active(j)
                /\ bookings[j].requestedBy = last.writer
                /\ (filter = "today" => bookings[j].date = Today)
                /\ (filter = "week" =>
                      Today <= bookings[j].date /\ bookings[j].date < Today + 7) } }

\* no active booking is dated date
NoActiveOn(date) == \A i \in Rows : Active(i) => bookings[i].date # date

\* C33: for a date on which no active booking exists (cancelled ones may),
\* a status query succeeds, every registered room has a line in its time
\* table, and every slot of every line is shown as available
C33_EmptyDateAllAvailable ==
  (last.type = "status" /\ NoActiveOn(parsed.args.date)) =>
    LET res == handleStatusCommand(bookings, roomTable, parsed.args)
    IN  /\ res.success
        /\ last.code = "OK"
        /\ \A room \in roomTable :
              /\ room \in DOMAIN res.timeTable
              /\ res.timeTable[room].label = room.name
              /\ \A k \in DOMAIN res.timeTable[room].slots :
                    ~res.timeTable[room].slots[k]

\* a status query for a date whose only booking is a cancelled one in the
\* hours shown, with a time table that has slots
C33_Witness ==
  /\ last.type = "status"
  /\ NoActiveOn(parsed.args.date)
  /\ \E i \in Rows :
        /\ bookings[i].date = parsed.args.date
        /\ bookings[i].status = "cancelled"
        /\ \E room \in roomTable :
              /\ room.id = bookings[i].roomId
              /\ Len(handleStatusCommand(bookings, roomTable, parsed.args).timeTable[room].slots) > 0

\* the codes of the results the catch blocks return for a failed store call
StoreFailureCodes ==
  {"INTERNAL_ERROR", "BOOKING_ERROR", "CANCEL_ERROR", "MOVE_ERROR", "EXTEND_ERROR"}

\* C34: when a store operation fails while a command is processed, the
\* message returned does not depend on the store's error detail: for any
\* two details the run returns the same text
C34_GenericFailureNotice ==
  (hc.pc = "returned" /\ hc.fault # "none" /\ hc.code \in StoreFailureCodes) =>
    \A d1, d2 \in ErrorDetails :
      FailureMessage(hc.code, d1) = FailureMessage(hc.code, d2)

\* a booking write happens only in the handler step of a run whose command
\* parsed and passed every check
WriteAfterChecks ==
  [][ bookings' # bookings =>
        /\ hc.pc = "parsed" /\ hc'.pc = "handled"
        /\ Parsed(hc).success
        /\ CheckCode(hc) = "PASS" ]_vars

\* the audit entry is written after the handler step, the response after
\* the audit entry
LoggedThenResponded ==
  [][ /\ hc'.audits > hc.audits => hc.pc = "handled" /\ hc'.pc = "logged"
      /\ (hc'.pc = "returned" /\ hc.pc # "returned") => hc.pc = "logged" /\ hc.audits = 1
    ]_vars

\* a run ends in no other way than by returning its response
EndsResponded ==
  [][ (hc.pc # "idle" /\ hc'.pc = "idle") => hc.pc = "returned" ]_vars

\* a run that has been received comes to its end (a book that the bound on
\* the rows keeps from writing aside)
RunCompletes ==
  (hc.pc = "received" /\ Len(bookings) < MaxBookings) ~> hc.pc = "idle"

\* C35: every request handed to handleCommand reaches Responded, once, and
\* passes its stages in order: the booking write only after parsing and
\* every check has passed, the audit entry after the execution, and the
\* response last
C35_StagesInOrder ==
  /\ WriteAfterChecks
  /\ LoggedThenResponded
  /\ EndsResponded
  /\ RunCompletes

\* a move or an extend of a cancelled booking by its owner is refused and
\* leaves the store as it is
CancelledRefused ==
  \A i \in Rows :
    bookings[i].status = "cancelled" =>
      /\ \A d \in DateTokens, st \in StartTokens :
            LET p == parseMoveCommand([bookingId |-> bookings[i].bookingId,
                                       dateArg |-> d, startTime |-> st], now)
                out == handleMoveCommand(bookings, p, bookings[i].requestedBy)
            IN  p.success => out.code # "OK" /\ out.bookings = bookings
      /\ \A n \in AddMinutes :
            LET p == parseExtendCommand([bookingId |-> bookings[i].bookingId,
                                         additionalMinutes |-> n])
                out == handleExtendCommand(bookings, p, bookings[i].requestedBy)
            IN  p.success => out.code # "OK" /\ out.bookings = bookings

\* C36: once a booking is cancelled its date, start time, end time and
\* duration never change again: a move or an extend changes active bookings
\* only, and is refused for a cancelled one
C36_CancelledFrozen ==
  /\ [][ \A i \in Rows :
            bookings[i].status = "cancelled" =>
              /\ bookings'[i].date = bookings[i].date
              /\ bookings'[i].startTime = bookings[i].startTime
              /\ bookings'[i].endTime = bookings[i].endTime
              /\ bookings'[i].durationMinutes = bookings[i].durationMinutes
        ]_vars
  /\ []CancelledRefused

\* the request a step answers
Asked == http'.request

\* the tables of bookings and of audit entries differ after the step
TablesChange == bookings' # bookings \/ http'.auditLogs # http.auditLogs

\* the payload token is a non-empty string equal to the configured token
RightToken(token) ==
  token.kind = "string" /\ token.text # "" /\ token.text = http.outgoingToken

\* C37: outside development mode no request changes the bookings or the
\* audit log unless its payload token is non-empty and equals the configured
\* token: a missing token is answered 401 and a wrong one 403, without a
\* call of handleCommand, nothing is accepted when the configured token is
\* empty, and /jandi/test runs handleCommand in development only
C37_TokenGuardsTables ==
  [][ /\ (http.nodeEnv # "development" /\ TablesChange) =>
            Asked.route = "/jandi/command" /\ RightToken(Asked.token)
      /\ (http' # http /\ Asked.route = "/jandi/command") =>
            /\ Falsy(Asked.token) => http'.status = "401" /\ ~http'.handled
            /\ (~Falsy(Asked.token) /\ ~RightToken(Asked.token)) =>
                  http'.status = "403" /\ ~http'.handled
            /\ http.outgoingToken = "" => ~http'.handled
      /\ (http' # http /\ Asked.route = "/jandi/test" /\ http'.handled) =>
            http.nodeEnv = "development"
    ]_vars

\* the routes under /admin
AdminRoutes == { "POST /admin/rooms", "PUT /admin/rooms/:id", "GET /admin" }

\* ADMIN_API_KEY is set to a non-empty key and the X-API-Key header equals it
RightKey(apiKey) ==
  /\ http.adminKey.kind = "string" /\ http.adminKey.text # ""
  /\ apiKey = http.adminKey

\* C38: every admin route answers 401 and creates or updates no room unless
\* ADMIN_API_KEY is configured non-empty and the X-API-Key header equals
\* it, so that without a configured key every admin request is rejected;
\* no room is ever deleted, and no room's id or short code changes
C38_AdminKeyGuardsRooms ==
  [][ /\ (http' # http /\ Asked.route \in AdminRoutes /\ ~RightKey(Asked.apiKey)) =>
            http'.status = "401" /\ roomTable' = roomTable
      /\ roomTable' # roomTable =>
            Asked.route \in AdminRoutes /\ RightKey(Asked.apiKey)
      /\ \A r \in roomTable :
            \E q \in roomTable' : q.id = r.id /\ q.name = r.name
    ]_vars

\* an admin with the configured key has created a room and then changed a
\* room's e-mail, while a request without the key was answered 401
C38_Witness ==
  /\ http.request.route = "GET /admin"
  /\ http.status = "401"
  /\ http.request.apiKey = JsUndefined
  /\ \E r \in roomTable : r.name = <<"c">>
  /\ \E r \in roomTable : r.id = 1 /\ r.email = "d@x"

====
